---- MODULE Spec2Model ----
(***************************************************************************)
(* Costing and tax engine of BoxCostPython:                                *)
(*   backend/services/gst.py         GSTCalculator                         *)
(*   backend/services/calculator.py  BoxCalculator                         *)
(*   backend/routers/quotes.py       calculate_box_cost                    *)
(*                                                                         *)
(* Numbers.  Decimal values are exact in the source; the model keeps them  *)
(* as integers in a fixed unit:                                            *)
(*   amount, discount_amount  : mills  (1/1000 rupee, three decimals)      *)
(*   gst_rate                 : tenths of a percent (18% is 180)           *)
(*   every field of a breakdown, and the reverse base : paise (1/100)      *)
(* Decimal("-0.00") compares equal to 0 and is the integer 0 here.         *)
(* The float arithmetic of calculator.py is modelled as exact arithmetic   *)
(* on scaled integers (units are given with CalculationResult).            *)
(***************************************************************************)
EXTENDS Integers, Sequences, FiniteSets, TLC

VARIABLES
    pc,         \* position of the one call in progress
    gst_in,     \* arguments of calculate_gst
    gst_out,    \* <<>> or <<the breakdown returned>>
    rev_out,    \* <<>> or <<the base returned by calculate_reverse_gst>>
    box_in,     \* the costing request / the caller's specification data
    rates_in,   \* the caller's rate table, a set of <<bf, gsm, shade, rate>>
    box_out,    \* <<>> or <<the CalculationResult returned>>
    box_exc,    \* "" or the name of the exception that left the call
    http_status, \* 0 or the status of the calculate_box_cost response
    heap,       \* the objects concurrent calculate calls are given
    frames,     \* the frame of each concurrent calculate call
    args,       \* arguments of a GSTIN or invoice-number call
    ret,        \* <<>> or <<the outcome of that call>>
    now         \* the clock: the date datetime.now() returns

vars == <<pc, gst_in, gst_out, rev_out, box_in, rates_in, box_out, box_exc, http_status, heap, frames, args, ret, now>>

costing_vars == <<gst_in, gst_out, rev_out, box_in, rates_in, box_out, box_exc, http_status>>
text_vars == <<args, ret, now>>

(***************************************************************************)
(* Bounds of the input sets.                                               *)
(***************************************************************************)
MaxAmount == 30      \* every amount of 0..MaxAmount mills is drawn
MaxDiscount == 12    \* discounts 0..MaxDiscount mills are all drawn
MaxPaise == 40       \* every whole-paise amount of 0..MaxPaise paise is drawn
MaxLayers == 3       \* layer lists of length 0..MaxLayers

None == <<>>
Some(v) == <<v>>
IsNone(o) == o = <<>>
Val(o) == o[1]

Abs(x) == IF x < 0 THEN -x ELSE x
Max(a, b) == IF a >= b THEN a ELSE b

(***************************************************************************)
(* Decimal.quantize(..., ROUND_HALF_UP) of the exact quotient n/d, d > 0:  *)
(* to the nearest integer, a tie going away from zero.                     *)
(***************************************************************************)
QuantizeTruncate(n, d) ==
    IF n >= 0 THEN n \div d ELSE -((-n) \div d)

quantize_half_even(n, d) ==
    LET a == Abs(n)
        q == a \div d
        r == a % d
        m == IF 2 * r > d \/ (2 * r = d /\ q % 2 = 1) THEN q + 1 ELSE q
    IN  IF n >= 0 THEN m ELSE -m

quantize_half_up(n, d) ==
    IF n >= 0 THEN (2 * n + d) \div (2 * d)
              ELSE -((2 * (-n) + d) \div (2 * d))

(***************************************************************************)
(* GSTCalculator.calculate_gst, line by line.                              *)
(***************************************************************************)
taxable_value_unclamped(amount, discount_amount) ==
    quantize_half_up(amount - discount_amount, 10)

\* lines 24-26: (amount - discount).quantize(0.01), floored at 0.00
taxable_value_of(amount, discount_amount) ==
    LET taxable_value == quantize_half_up(amount - discount_amount, 10)
    IN  IF taxable_value < 0 THEN 0 ELSE taxable_value

\* lines 28-29: (taxable_value * gst_rate / 100).quantize(0.01)
total_gst_of(taxable_value, gst_rate) ==
    quantize_half_up(taxable_value * gst_rate, 1000)

\* line 40: (total_gst / 2).quantize(0.01)
cgst_rounded_down(total_gst) == QuantizeTruncate(total_gst, 2)

cgst_of(total_gst) == quantize_half_up(total_gst, 2)

sgst_rounded_again(total_gst, cgst) == quantize_half_up(total_gst, 2)

\* line 41: total_gst - cgst
sgst_of(total_gst, cgst) == total_gst - cgst

total_amount_without_discount(amount, taxable_value, total_gst) ==
    quantize_half_up(amount, 10) + total_gst

\* lines 37 and 47: taxable_value + total_gst
total_amount_of(amount, taxable_value, total_gst) == taxable_value + total_gst

inter_state_breakdown_with_halves(taxable_value, total_gst, amount) ==
    [cgst |-> cgst_of(total_gst),
     sgst |-> sgst_of(total_gst, cgst_of(total_gst)),
     igst |-> total_gst,
     total_gst |-> total_gst,
     total_amount |-> total_amount_of(amount, taxable_value, total_gst)]

\* lines 31-38
inter_state_breakdown(taxable_value, total_gst, amount) ==
    [cgst |-> 0,
     sgst |-> 0,
     igst |-> total_gst,
     total_gst |-> total_gst,
     total_amount |-> total_amount_of(amount, taxable_value, total_gst)]

\* lines 40-48
intra_state_breakdown(taxable_value, total_gst, amount) ==
    LET cgst == cgst_of(total_gst)
        sgst == sgst_of(total_gst, cgst)
    IN  [cgst |-> cgst,
         sgst |-> sgst,
         igst |-> 0,
         total_gst |-> total_gst,
         total_amount |-> total_amount_of(amount, taxable_value, total_gst)]

calculate_gst_branches_swapped(amount, gst_rate, is_inter_state, discount_amount) ==
    LET taxable_value == taxable_value_of(amount, discount_amount)
        total_gst == total_gst_of(taxable_value, gst_rate)
    IN  IF ~is_inter_state
        THEN inter_state_breakdown(taxable_value, total_gst, amount)
        ELSE intra_state_breakdown(taxable_value, total_gst, amount)

calculate_gst(amount, gst_rate, is_inter_state, discount_amount) ==
    LET taxable_value == taxable_value_of(amount, discount_amount)
        total_gst == total_gst_of(taxable_value, gst_rate)
    IN  IF is_inter_state
        THEN inter_state_breakdown(taxable_value, total_gst, amount)
        ELSE intra_state_breakdown(taxable_value, total_gst, amount)

calculate_reverse_gst_truncating(total_amount, gst_rate) ==
    QuantizeTruncate(total_amount * 1000, 1000 + gst_rate)

\* lines 51-54: (total_amount * 100 / (100 + gst_rate)).quantize(0.01);
\* total_amount in paise, the base in paise.  100 + gst_rate > 0 is required
\* of the caller here (the division raises at gst_rate = -100).
calculate_reverse_gst(total_amount, gst_rate) ==
    quantize_half_up(total_amount * 1000, 1000 + gst_rate)

(***************************************************************************)
(* calculator.py.  Units of the model:                                     *)
(*   length, width, height, sheet_length, sheet_width : mm                 *)
(*   sheet_area      : mm^2 (the source divides by 10^6 to get m^2)        *)
(*   fluting_factor  : hundredths (1.35 is 135)                            *)
(*   paper_weight    : 10^-4 kg     board_thickness : 10^-3 mm             *)
(*   rates, conversion_rate : paise per kg                                 *)
(*   paper_cost, manufacturing_cost, printing_cost, die_cost : paise       *)
(*   conversion_cost, unit_cost, total_cost : 10^-4 paise                  *)
(*   ect : hundredths    burst_strength : units of bf                      *)
(*   bct : the McKee arguments <<ect, thickness, perimeter>>; the number   *)
(*         is round(5.87 * ect * sqrt(thickness) * sqrt(perimeter), 2)     *)
(***************************************************************************)
GLUE_FLAP == 30
DECKLE_ALLOWANCE == 25
SHEET_ALLOWANCE == 15

\* Python's round(x, k) of the exact quotient n/d, d > 0: to the nearest
\* integer of the target unit, a tie going to the even one.
py_round(n, d) ==
    LET a == Abs(n)
        q == a \div d
        r == a % d
        m == IF 2 * r > d \/ (2 * r = d /\ q % 2 = 1) THEN q + 1 ELSE q
    IN  IF n >= 0 THEN m ELSE -m

\* PaperLayer.__init__ (lines 13-17): line 16 is "shade = shade", so the
\* object gets the attributes bf, gsm and is_flute and no attribute shade.
PaperLayer(bf, gsm, shade, is_flute) ==
    [bf |-> bf, gsm |-> gsm, is_flute |-> is_flute]

\* getattr: whether reading layer.<name> succeeds
HasAttr(obj, name) == name \in DOMAIN obj

BoxSpecification(length, width, height, ply, quantity, paper_layers, fluting_factor, conversion_rate, printing_cost, die_cost) ==
    [length |-> length, width |-> width, height |-> height, ply |-> ply,
     quantity |-> quantity, paper_layers |-> paper_layers,
     fluting_factor |-> fluting_factor, conversion_rate |-> conversion_rate,
     printing_cost |-> printing_cost, die_cost |-> die_cost]

\* CalculationResult.__init__ (lines 51-64)
CalculationResult ==
    [sheet_length |-> 0, sheet_width |-> 0, sheet_area |-> 0,
     paper_weight |-> 0, board_thickness |-> 0, paper_cost |-> 0,
     manufacturing_cost |-> 0, conversion_cost |-> 0, unit_cost |-> 0,
     total_cost |-> 0, ect |-> None, bct |-> None, burst_strength |-> None]

\* lines 153-176
calculate_sheet_dimensions(length, width, height) ==
    [sheet_length |-> 2 * (length + width) + GLUE_FLAP + DECKLE_ALLOWANCE + SHEET_ALLOWANCE,
     sheet_width |-> 2 * height + DECKLE_ALLOWANCE + SHEET_ALLOWANCE]

RECURSIVE weight_gsm_sum(_, _)
\* lines 188-196: total_gsm in hundredths of a gsm
weight_gsm_sum(layers, fluting_factor) ==
    IF layers = <<>> THEN 0
    ELSE (IF Head(layers).is_flute THEN Head(layers).gsm * fluting_factor
                                   ELSE Head(layers).gsm * 100)
         + weight_gsm_sum(Tail(layers), fluting_factor)

\* lines 178-201: round(sheet_area * total_gsm / 1000, 4)
calculate_paper_weight(sheet_area, layers, fluting_factor) ==
    py_round(sheet_area * weight_gsm_sum(layers, fluting_factor), 10000000)

RECURSIVE liner_gsm_sum(_)
liner_gsm_sum(layers) ==
    IF layers = <<>> THEN 0
    ELSE (IF Head(layers).is_flute THEN 0 ELSE Head(layers).gsm)
         + liner_gsm_sum(Tail(layers))

RECURSIVE flute_count(_)
flute_count(layers) ==
    IF layers = <<>> THEN 0
    ELSE (IF Head(layers).is_flute THEN 1 ELSE 0) + flute_count(Tail(layers))

\* lines 203-222: round(sum(gsm / 130 for liners) + 4.0 per flute, 3)
calculate_board_thickness(layers, fluting_factor) ==
    py_round(liner_gsm_sum(layers) * 1000 + flute_count(layers) * 4000 * 130, 130)

\* rates.get(rate_key, 0)
rates_get(rates, bf, gsm, shade) ==
    IF \E t \in rates : t[1] = bf /\ t[2] = gsm /\ t[3] = shade
    THEN (CHOOSE t \in rates : t[1] = bf /\ t[2] = gsm /\ t[3] = shade)[4]
    ELSE 0

RECURSIVE total_rate_sum(_, _)
total_rate_sum(layers, rates) ==
    IF layers = <<>> THEN 0
    ELSE rates_get(rates, Head(layers).bf, Head(layers).gsm, Head(layers).shade)
           * Head(layers).gsm
         + total_rate_sum(Tail(layers), rates)

RECURSIVE total_gsm_sum(_)
total_gsm_sum(layers) ==
    IF layers = <<>> THEN 0
    ELSE Head(layers).gsm + total_gsm_sum(Tail(layers))

\* lines 224-248.  The loop body reads layer.shade for every layer (line
\* 238): the first layer without that attribute raises AttributeError.
calculate_paper_cost(weight, layers, rates) ==
    IF \E i \in 1..Len(layers) : ~HasAttr(layers[i], "shade")
    THEN [exc |-> "AttributeError", value |-> 0]
    ELSE LET total_rate == total_rate_sum(layers, rates)
             total_gsm == total_gsm_sum(layers)
         IN  [exc |-> "",
              value |-> IF total_gsm > 0
                        THEN py_round(weight * total_rate, total_gsm * 10000)
                        ELSE 0]

RECURSIVE liner_bf_sum(_)
\* the sum of bf over the layers with is_flute false (lines 257-261, 295)
liner_bf_sum(layers) ==
    IF layers = <<>> THEN 0
    ELSE (IF Head(layers).is_flute THEN 0 ELSE Head(layers).bf)
         + liner_bf_sum(Tail(layers))

RECURSIVE all_bf_sum(_)
all_bf_sum(layers) ==
    IF layers = <<>> THEN 0 ELSE Head(layers).bf + all_bf_sum(Tail(layers))

calculate_ect_all_layers(layers) ==
    LET ect == all_bf_sum(layers) * 15
    IN  IF ect > 0 THEN Some(ect) ELSE None

\* lines 250-266: ect = sum(bf * 0.1) * 1.5; round(ect, 2) if ect > 0 else None
calculate_ect(layers) ==
    LET ect == liner_bf_sum(layers) * 15
    IN  IF ect > 0 THEN Some(ect) ELSE None

\* lines 268-288
calculate_bct(ect, length, width, height, thickness) ==
    IF IsNone(ect) \/ Val(ect) <= 0
    THEN None
    ELSE Some([ect |-> Val(ect), thickness |-> thickness,
               perimeter |-> 2 * (length + width)])

\* lines 290-297
calculate_burst_strength(layers) ==
    LET total_bf == liner_bf_sum(layers)
    IN  IF total_bf > 0 THEN Some(total_bf) ELSE None

\* line 138
total_cost_of(unit_cost, quantity) == unit_cost * quantity

\* BoxCalculator.calculate (lines 79-151): the result, or the exception
\* that leaves the call.
calculate(spec, paper_rates) ==
    LET dims == calculate_sheet_dimensions(spec.length, spec.width, spec.height)
        sheet_area == dims.sheet_length * dims.sheet_width
        paper_weight == calculate_paper_weight(sheet_area, spec.paper_layers,
                                               spec.fluting_factor)
        board_thickness == calculate_board_thickness(spec.paper_layers,
                                                     spec.fluting_factor)
        paper == calculate_paper_cost(paper_weight, spec.paper_layers, paper_rates)
        manufacturing_cost == spec.printing_cost + spec.die_cost
        conversion_cost == paper_weight * spec.conversion_rate
        unit_cost == (paper.value + manufacturing_cost) * 10000 + conversion_cost
        ect == calculate_ect(spec.paper_layers)
    IN  IF paper.exc # ""
        THEN [exc |-> paper.exc, result |-> None]
        ELSE [exc |-> "",
              result |-> Some(
                [CalculationResult EXCEPT
                   !.sheet_length = dims.sheet_length,
                   !.sheet_width = dims.sheet_width,
                   !.sheet_area = sheet_area,
                   !.paper_weight = paper_weight,
                   !.board_thickness = board_thickness,
                   !.paper_cost = paper.value,
                   !.manufacturing_cost = manufacturing_cost,
                   !.conversion_cost = conversion_cost,
                   !.unit_cost = unit_cost,
                   !.total_cost = total_cost_of(unit_cost, spec.quantity),
                   !.ect = ect,
                   !.bct = calculate_bct(ect, spec.length, spec.width, spec.height,
                                         board_thickness),
                   !.burst_strength = calculate_burst_strength(spec.paper_layers)])]

\* the PaperLayer objects a caller builds from (bf, gsm, shade, is_flute)
build_layers(layer_data) ==
    [i \in 1..Len(layer_data) |->
        PaperLayer(layer_data[i].bf, layer_data[i].gsm, layer_data[i].shade,
                   layer_data[i].is_flute)]

build_spec(data) ==
    BoxSpecification(data.length, data.width, data.height, data.ply, data.quantity,
                     build_layers(data.paper_layers), data.fluting_factor,
                     data.conversion_rate, data.printing_cost, data.die_cost)

\* CalculateBoxRequest (schemas.py lines 241-252): gt=0 on length, width,
\* height and quantity, ge=3 and le=9 on ply
request_valid(data) ==
    /\ data.length > 0
    /\ data.width > 0
    /\ data.height > 0
    /\ data.ply >= 3
    /\ data.ply <= 9
    /\ data.quantity > 0

\* quotes.py lines 57-60: a dummy rate of 50.0 for every layer's key; the
\* comprehension reads layer.shade of the PaperLayer objects.
dummy_paper_rates(paper_layers) ==
    IF \E i \in 1..Len(paper_layers) : ~HasAttr(paper_layers[i], "shade")
    THEN [exc |-> "AttributeError", value |-> {}]
    ELSE [exc |-> "",
          value |-> {<<paper_layers[i].bf, paper_layers[i].gsm,
                       paper_layers[i].shade, 5000>> : i \in 1..Len(paper_layers)}]

\* calculate_box_cost (quotes.py lines 21-78): the response status and body.
\* An invalid request is answered 422 before the handler runs (main.py lines
\* 65-69); an exception leaving the handler is answered 500 (main.py lines
\* 78-83).
calculate_box_cost(data) ==
    IF ~request_valid(data)
    THEN [status |-> 422, exc |-> "", body |-> None]
    ELSE LET spec == build_spec(data)
             paper_rates == dummy_paper_rates(spec.paper_layers)
             res == calculate(spec, paper_rates.value)
         IN  IF paper_rates.exc # ""
             THEN [status |-> 500, exc |-> paper_rates.exc, body |-> None]
             ELSE IF res.exc # ""
             THEN [status |-> 500, exc |-> res.exc, body |-> None]
             ELSE [status |-> 200, exc |-> "", body |-> res.result]

(***************************************************************************)
(* The inputs drawn.                                                       *)
(***************************************************************************)
Amounts ==
    (0..MaxAmount) \cup {10 * k : k \in 0..MaxPaise} \cup {999, 333330, 1000000}
Discounts == (0..MaxDiscount) \cup {200000}
Rates == {-180, 0, 1, 125, 180, 280, 500}

GstInputs ==
    [amount : Amounts, gst_rate : Rates, is_inter_state : BOOLEAN,
     discount_amount : Discounts]

NoGst == [amount |-> 0, gst_rate |-> 0, is_inter_state |-> FALSE, discount_amount |-> 0]

LayerData ==
    {[bf |-> 16, gsm |-> 120, shade |-> "kraft", is_flute |-> FALSE],
     [bf |-> 18, gsm |-> 150, shade |-> "kraft", is_flute |-> TRUE],
     [bf |-> 0, gsm |-> 0, shade |-> "golden", is_flute |-> FALSE],
     [bf |-> 20, gsm |-> 100, shade |-> "golden", is_flute |-> TRUE]}

LayerLists == UNION {[1..n -> LayerData] : n \in 0..MaxLayers}

BoxInputs ==
    [length : {0, 10, 15}, width : {10}, height : {10}, ply : {2, 3},
     quantity : {0, 1, 7}, paper_layers : LayerLists, fluting_factor : {135},
     conversion_rate : {1500}, printing_cost : {0, 250}, die_cost : {0, 125}]

NoBox ==
    [length |-> 0, width |-> 0, height |-> 0, ply |-> 0, quantity |-> 0,
     paper_layers |-> <<>>, fluting_factor |-> 0, conversion_rate |-> 0,
     printing_cost |-> 0, die_cost |-> 0]

RateTables ==
    {{},
     {<<16, 120, "kraft", 4200>>},
     {<<16, 120, "kraft", 4200>>, <<18, 150, "kraft", 4550>>,
      <<0, 0, "golden", 6000>>, <<20, 100, "golden", 5125>>}}

NoDate == [year |-> 0, month |-> 0, day |-> 0]

(***************************************************************************)
(* Text.  A str is the sequence of its characters; an argument that may be *)
(* None is an Optional str.  A call that may raise yields the record       *)
(* [exc, value]: exc = "" and the returned value, or the exception's name. *)
(***************************************************************************)
Digits == {"0", "1", "2", "3", "4", "5", "6", "7", "8", "9"}
UpperLetters == {"A", "B", "C", "D", "E", "F", "G", "H", "I", "J", "K", "L", "M", "N", "O", "P", "Q", "R", "S", "T", "U", "V", "W", "X", "Y", "Z"}
LowerLetters == {"a", "m", "z"}
Letters == UpperLetters \cup LowerLetters

\* str.isalpha / str.isdigit / str.isalnum: non-empty and every character
\* of the class
isalpha(s) == Len(s) > 0 /\ \A i \in 1..Len(s) : s[i] \in Letters
isdigit(s) == Len(s) > 0 /\ \A i \in 1..Len(s) : s[i] \in Digits
isalnum(s) == Len(s) > 0 /\ \A i \in 1..Len(s) : s[i] \in Letters \cup Digits

\* s[start:stop] for 0 <= start <= stop: clipped to the string, never raises
py_slice(s, start, stop) == SubSeq(s, start + 1, IF stop < Len(s) THEN stop ELSE Len(s))

\* truth value of an Optional str: None and "" are false
truthy(o) == ~IsNone(o) /\ Len(Val(o)) > 0

Returned(v) == [exc |-> "", value |-> v]
Raised(e) == [exc |-> e, value |-> None]

DigitChars == <<"0", "1", "2", "3", "4", "5", "6", "7", "8", "9">>
two_digits(n) == <<DigitChars[(n \div 10) + 1], DigitChars[(n % 10) + 1]>>

VALID_STATE_CODES ==
    {two_digits(n) : n \in (1..24) \cup {26, 27} \cup (29..38) \cup {97, 99}}

pan_shifted(text) == py_slice(text, 3, 13)

\* pan = gstin[2:12]
pan(text) == py_slice(text, 2, 12)

validate_gstin_checks_z_slot(gstin) ==
    IF IsNone(gstin) THEN Raised("TypeError")
    ELSE LET text == Val(gstin)
             state_code == py_slice(text, 0, 2)
         IN  IF state_code \notin VALID_STATE_CODES THEN Returned(FALSE)
             ELSE IF ~isalpha(py_slice(pan(text), 0, 5)) THEN Returned(FALSE)
             ELSE IF ~isdigit(py_slice(pan(text), 5, 9)) THEN Returned(FALSE)
             ELSE IF Len(pan(text)) < 10 THEN Raised("IndexError")
             ELSE IF ~isalpha(<<pan(text)[10]>>) THEN Returned(FALSE)
             ELSE IF Len(text) < 13 THEN Raised("IndexError")
             ELSE IF ~isalnum(<<text[13]>>) THEN Returned(FALSE)
             ELSE IF Len(text) < 14 THEN Raised("IndexError")
             ELSE IF text[14] # "Z" THEN Returned(FALSE)
             ELSE Returned(TRUE)

\* validate_gstin past its first guard (lines 71-84); subscripting None or an
\* index past the end raises
validate_gstin_checks(gstin) ==
    IF IsNone(gstin) THEN Raised("TypeError")
    ELSE LET text == Val(gstin)
             state_code == py_slice(text, 0, 2)
         IN  IF state_code \notin VALID_STATE_CODES THEN Returned(FALSE)
             ELSE IF ~isalpha(py_slice(pan(text), 0, 5)) THEN Returned(FALSE)
             ELSE IF ~isdigit(py_slice(pan(text), 5, 9)) THEN Returned(FALSE)
             ELSE IF Len(pan(text)) < 10 THEN Raised("IndexError")
             ELSE IF ~isalpha(<<pan(text)[10]>>) THEN Returned(FALSE)
             ELSE IF Len(text) < 13 THEN Raised("IndexError")
             ELSE IF ~isalnum(<<text[13]>>) THEN Returned(FALSE)
             ELSE Returned(TRUE)

validate_gstin_unguarded(gstin) == validate_gstin_checks(gstin)

validate_gstin(gstin) ==
    IF ~truthy(gstin) \/ Len(Val(gstin)) # 15
    THEN Returned(FALSE)
    ELSE validate_gstin_checks(gstin)

extract_state_code_whole(gstin) == IF truthy(gstin) THEN Val(gstin) ELSE <<>>

extract_state_code(gstin) ==
    IF truthy(gstin) /\ Len(Val(gstin)) >= 2
    THEN py_slice(Val(gstin), 0, 2)
    ELSE <<>>

determine_inter_state(seller_gst, buyer_gst) ==
    LET seller_state == extract_state_code(seller_gst)
        buyer_state == extract_state_code(buyer_gst)
    IN  IF Len(seller_state) = 0 \/ Len(buyer_state) = 0
        THEN FALSE
        ELSE seller_state # buyer_state

\* the GSTINs of the parity tests
GSTIN_27 == <<"2", "7", "A", "A", "B", "C", "U", "9", "6", "0", "3", "R", "1", "Z", "M">>
GSTIN_06 == <<"0", "6", "A", "B", "C", "D", "E", "1", "2", "3", "4", "F", "1", "Z", "5">>
GSTIN_27_other == <<"2", "7", "A", "B", "C", "D", "E", "1", "2", "3", "4", "F", "1", "Z", "5">>
GSTIN_short == <<"2", "7", "A", "A", "B", "C", "U", "9", "6", "0", "3", "R", "1", "Z">>
GSTIN_long == <<"9", "9", "I", "N", "V", "A", "L", "I", "D", "G", "S", "T", "I", "N", "1", "2">>
GSTIN_00 == <<"0", "0", "A", "A", "B", "C", "U", "9", "6", "0", "3", "R", "1", "Z", "M">>

SubstChars == {"A", "a", "7", "-", " "}

\* the test GSTINs, one valid GSTIN with each character replaced in turn,
\* with every two-digit state code, cut to every length, and extended
GstinTexts ==
    {GSTIN_27, GSTIN_06, GSTIN_27_other, GSTIN_short, GSTIN_long, GSTIN_00}
    \cup {[GSTIN_27 EXCEPT ![i] = c] : i \in 1..15, c \in SubstChars}
    \cup {two_digits(n) \o py_slice(GSTIN_27, 2, 15) : n \in 0..99}
    \cup {py_slice(GSTIN_27, 0, n) : n \in 0..15}
    \cup {GSTIN_27 \o <<"1">>, GSTIN_06 \o <<"Z">>}

GstinInputs == {None} \cup {Some(text) : text \in GstinTexts}

\* characters for the 14th and 15th position
TailChars == {"Z", "M", "5", "-"}

\* first thirteen characters: valid ones, and ones failing one check each
GstinHeads ==
    {py_slice(text, 0, 13) :
        text \in {GSTIN_27, GSTIN_06, GSTIN_00, [GSTIN_27 EXCEPT ![13] = "-"],
                  [GSTIN_27 EXCEPT ![5] = "1"]}}

\* pairs of 15-character strings equal in positions 1-13
GstinPairs ==
    {[gstin |-> Some(head \o <<a, b>>), other |-> Some(head \o <<c, d>>)] :
        head \in GstinHeads, a \in TailChars, b \in TailChars,
        c \in TailChars, d \in TailChars}

InterStateInputs ==
    {None, Some(<<>>), Some(<<"2">>), Some(<<"2", "7">>), Some(<<"0", "6">>),
     Some(GSTIN_27), Some(GSTIN_06), Some(GSTIN_27_other)}

(***************************************************************************)
(* Invoice numbering (InvoiceNumberGenerator).  A date is the record of    *)
(* its year, month and day; datetime.now() reads the variable now.         *)
(***************************************************************************)
\* str(n) for a non-negative n
RECURSIVE str_nat(_)
str_nat(n) ==
    IF n < 10 THEN <<DigitChars[n + 1]>>
    ELSE str_nat(n \div 10) \o <<DigitChars[(n % 10) + 1]>>

\* str(n), f"{n}"
str_int(n) == IF n < 0 THEN <<"-">> \o str_nat(-n) ELSE str_nat(n)

\* s[-k:]
py_last(s, k) == SubSeq(s, IF Len(s) > k THEN Len(s) - k + 1 ELSE 1, Len(s))

get_financial_year_of_clock(date) ==
    IF now.month >= 4
    THEN str_int(now.year) \o <<"-">> \o py_last(str_int(now.year + 1), 2)
    ELSE str_int(now.year - 1) \o <<"-">> \o py_last(str_int(now.year), 2)

get_financial_year_from_may(date) ==
    LET d == IF IsNone(date) THEN now ELSE Val(date)
    IN  IF d.month > 4
        THEN str_int(d.year) \o <<"-">> \o py_last(str_int(d.year + 1), 2)
        ELSE str_int(d.year - 1) \o <<"-">> \o py_last(str_int(d.year), 2)

get_financial_year(date) ==
    LET d == IF IsNone(date) THEN now ELSE Val(date)
    IN  IF d.month >= 4
        THEN str_int(d.year) \o <<"-">> \o py_last(str_int(d.year + 1), 2)
        ELSE str_int(d.year - 1) \o <<"-">> \o py_last(str_int(d.year), 2)

RECURSIVE zeros(_)
zeros(k) == IF k <= 0 THEN <<>> ELSE <<"0">> \o zeros(k - 1)

format_d(n) == str_int(n)

\* f"{n:04d}": the sign, then zeros up to a total width of 4, then the digits
format_04d(n) ==
    LET sign == IF n < 0 THEN <<"-">> ELSE <<>>
        digits == str_nat(Abs(n))
    IN  sign \o zeros(4 - Len(sign) - Len(digits)) \o digits

generate_invoice_number_truncating(prefix, sequence, financial_year) ==
    LET fy == IF truthy(financial_year) THEN Val(financial_year)
              ELSE get_financial_year(None)
    IN  prefix \o <<"/", "F", "Y">> \o fy \o <<"/">> \o py_last(format_04d(sequence), 4)

generate_invoice_number(prefix, sequence, financial_year) ==
    LET fy == IF truthy(financial_year) THEN Val(financial_year)
              ELSE get_financial_year(None)
    IN  prefix \o <<"/", "F", "Y">> \o fy \o <<"/">> \o format_04d(sequence)

\* s.split(sep) for a one-character sep: always at least one part
RECURSIVE split(_, _)
split(s, sep) ==
    IF \E i \in 1..Len(s) : s[i] = sep
    THEN LET i == CHOOSE k \in 1..Len(s) :
                      s[k] = sep /\ \A j \in 1..(k - 1) : s[j] # sep
         IN  <<SubSeq(s, 1, i - 1)>> \o split(SubSeq(s, i + 1, Len(s)), sep)
    ELSE <<s>>

Whitespace == {" "}

\* s.strip()
RECURSIVE strip(_)
strip(s) ==
    IF Len(s) > 0 /\ s[1] \in Whitespace THEN strip(Tail(s))
    ELSE IF Len(s) > 0 /\ s[Len(s)] \in Whitespace THEN strip(SubSeq(s, 1, Len(s) - 1))
    ELSE s

digit_value(c) == CHOOSE d \in 0..9 : DigitChars[d + 1] = c

RECURSIVE digits_value(_)
digits_value(s) ==
    IF Len(s) = 0 THEN 0
    ELSE 10 * digits_value(SubSeq(s, 1, Len(s) - 1)) + digit_value(s[Len(s)])

is_digit_char(c) == c \in Digits

\* int(s) of a str: surrounding whitespace dropped, an optional sign, then
\* digits with single underscores between them; anything else is a
\* ValueError
py_int(s) ==
    LET t == strip(s)
        signed == Len(t) > 0 /\ t[1] \in {"+", "-"}
        body == IF signed THEN Tail(t) ELSE t
        ok == /\ Len(body) > 0
              /\ \A i \in 1..Len(body) : body[i] \in Digits \cup {"_"}
              /\ body[1] # "_"
              /\ body[Len(body)] # "_"
              /\ \A i \in 1..(Len(body) - 1) : ~(body[i] = "_" /\ body[i + 1] = "_")
        magnitude == digits_value(SelectSeq(body, is_digit_char))
    IN  IF ~ok THEN Raised("ValueError")
        ELSE Returned(IF signed /\ t[1] = "-" THEN -magnitude ELSE magnitude)

parse_sequence_uncaught(invoice_number) ==
    IF ~truthy(invoice_number) THEN Returned(0)
    ELSE LET parts == split(Val(invoice_number), "/")
         IN  IF Len(parts) = 0 THEN Returned(0)
             ELSE py_int(parts[Len(parts)])

parse_sequence(invoice_number) ==
    IF ~truthy(invoice_number) THEN Returned(0)
    ELSE LET parts == split(Val(invoice_number), "/")
         IN  IF Len(parts) = 0 THEN Returned(0)
             ELSE LET parsed == py_int(parts[Len(parts)])
                  IN  IF parsed.exc = "ValueError" THEN Returned(0) ELSE parsed

Years == {1999, 2000, 2009, 2024, 2025, 2026, 2099, 9999}
MonthDays == {<<1, 1>>, <<3, 31>>, <<4, 1>>, <<12, 31>>}
Dates == {[year |-> y, month |-> md[1], day |-> md[2]] : y \in Years, md \in MonthDays}
Clock == {[year |-> 2026, month |-> 3, day |-> 31], [year |-> 2026, month |-> 11, day |-> 1]}

\* dates the clock can show at a later call
LaterClock == Clock \cup {[year |-> 2027, month |-> 4, day |-> 1]}

\* d is a later day than e
later(d, e) ==
    \/ d.year > e.year
    \/ d.year = e.year /\ d.month > e.month
    \/ d.year = e.year /\ d.month = e.month /\ d.day > e.day

FY_2024_25 == <<"2", "0", "2", "4", "-", "2", "5">>
FY_2025_26 == <<"2", "0", "2", "5", "-", "2", "6">>
INV == <<"I", "N", "V">>

Prefixes == {INV, <<>>, <<"A", "/", "B">>, <<"B", "-", "2">>}
SequenceNumbers == {-5, 0, 1, 42, 999, 1000, 9999, 10000, 12345, 100000}
FinancialYears == {None, Some(<<>>), Some(FY_2024_25), Some(FY_2025_26), Some(<<"2", "4", "/", "2", "5">>)}

\* layer lists and box dimensions for the strength helpers called on their own
StrengthInputs ==
    [paper_layers : LayerLists, length : {10}, width : {15}, height : {10},
     fluting_factor : {135}]

\* a call of get_financial_year or of generate_invoice_number, to be made twice
RepeatedCalls ==
    [op : {"get_financial_year"},
     date : {None, Some([year |-> 2025, month |-> 3, day |-> 31]),
             Some([year |-> 2025, month |-> 4, day |-> 1])},
     prefix : {INV}, sequence : {0}, financial_year : {None}]
    \cup
    [op : {"generate_invoice_number"}, date : {None},
     prefix : {INV, <<>>}, sequence : {1, 12345},
     financial_year : {None, Some(<<>>), Some(FY_2024_25)}]

\* the call args describes
repeated_call(a) ==
    IF a.op = "get_financial_year"
    THEN get_financial_year(a.date)
    ELSE generate_invoice_number(a.prefix, a.sequence, a.financial_year)

InvoiceNumbers ==
    {None, Some(<<>>)} \cup
    {Some(text) : text \in {
        <<"I", "N", "V", "/", "F", "Y", "2", "0", "2", "4", "-", "2", "5", "/", "0", "0", "4", "2">>,
        <<"I", "N", "V", "/", "F", "Y", "2", "0", "2", "4", "-", "2", "5", "/">>,
        <<"I", "N", "V">>,
        <<"4", "2">>,
        <<"I", "N", "V", "/", "F", "Y", "2", "0", "2", "4", "-", "2", "5", "/", "A", "B", "C">>,
        <<"I", "N", "V", "/", "F", "Y", "2", "0", "2", "4", "-", "2", "5", "/", "4", " ", "2">>,
        <<"I", "N", "V", "/", " ", "4", "2", " ">>,
        <<"I", "N", "V", "/", "+", "7">>,
        <<"I", "N", "V", "/", "-", "7">>,
        <<"I", "N", "V", "/", "1", "_", "0", "0", "0">>,
        <<"I", "N", "V", "/", "_", "1">>,
        <<"I", "N", "V", "/", "1", "_", "_", "0">>,
        <<"I", "N", "V", "/", "1", "2", ".", "5">>,
        <<"I", "N", "V", "/", "F", "Y", "2", "0", "2", "4", "-", "2", "5", "/", "1", "2", "3", "4", "5">>,
        <<"I", "N", "V", "/", "F", "Y", "2", "0", "2", "4", "-", "2", "5">>,
        <<"/">>,
        <<"I", "N", "V", "/", "-">>,
        <<"I", "N", "V", "/", " ">>,
        <<"0", "0", "4", "2", "/", "I", "N", "V">>,
        <<"I", "N", "V", "/", "0", "x", "1", "F">>}}

(***************************************************************************)
(* Paper pricing (PaperPricingCalculator).  Prices and adjustments are in  *)
(* mills (thousandths of a currency unit), the returned rate in paise;     *)
(* gsm_rules is a dict, the set of its <<key, value>> items.               *)
(***************************************************************************)
\* gsm_rules.get(key, default)
rules_get(gsm_rules, key, default) ==
    IF \E item \in gsm_rules : item[1] = key
    THEN (CHOOSE item \in gsm_rules : item[1] = key)[2]
    ELSE default

gsm_adjustment_both_tests(gsm, gsm_rules) ==
    (IF gsm <= rules_get(gsm_rules, "low_gsm_threshold", 101)
     THEN rules_get(gsm_rules, "low_gsm_adjustment", 0) ELSE 0)
    + (IF gsm >= rules_get(gsm_rules, "high_gsm_threshold", 201)
       THEN rules_get(gsm_rules, "high_gsm_adjustment", 0) ELSE 0)

\* lines 336-339: the if / elif on the two thresholds
gsm_adjustment(gsm, gsm_rules) ==
    IF gsm <= rules_get(gsm_rules, "low_gsm_threshold", 101)
    THEN rules_get(gsm_rules, "low_gsm_adjustment", 0)
    ELSE IF gsm >= rules_get(gsm_rules, "high_gsm_threshold", 201)
         THEN rules_get(gsm_rules, "high_gsm_adjustment", 0)
         ELSE 0

\* round(rate, 2) of the float sum; the inputs drawn leave no sum exactly
\* half way between two paise, where the float's binary error decides
calculate_paper_rate(bf, gsm, shade, bf_base_price, gsm_rules, shade_premium, market_adjustment) ==
    LET rate == bf_base_price + gsm_adjustment(gsm, gsm_rules)
                    + shade_premium + market_adjustment
    IN  py_round(rate, 10)

GsmRules ==
    {{},
     {<<"low_gsm_adjustment", -1000>>, <<"high_gsm_adjustment", 2004>>},
     {<<"low_gsm_threshold", 120>>, <<"low_gsm_adjustment", -2000>>,
      <<"high_gsm_threshold", 180>>, <<"high_gsm_adjustment", 3000>>},
     {<<"low_gsm_threshold", 150>>, <<"low_gsm_adjustment", -1500>>,
      <<"high_gsm_threshold", 150>>, <<"high_gsm_adjustment", 2500>>},
     {<<"low_gsm_threshold", 200>>, <<"low_gsm_adjustment", -1506>>,
      <<"high_gsm_threshold", 100>>, <<"high_gsm_adjustment", 2500>>}}

RateInputs ==
    [bf : {16}, gsm : {80, 100, 101, 102, 120, 150, 180, 200, 201, 250},
     shade : {"kraft"}, bf_base_price : {40000, 45004},
     gsm_rules : GsmRules, shade_premium : {0, 2500},
     market_adjustment : {-1000, 0, 508}]

(***************************************************************************)
(* The state machine: one call per behaviour, its arguments drawn by Init. *)
(***************************************************************************)
Init ==
    /\ gst_out = None
    /\ rev_out = None
    /\ box_out = None
    /\ box_exc = ""
    /\ http_status = 0
    /\ heap = <<>>
    /\ frames = <<>>
    /\ ret = None
    /\ \/ /\ pc = "gst_call"
          /\ gst_in \in GstInputs
          /\ box_in = NoBox
          /\ rates_in = {}
          /\ args = <<>>
          /\ now = NoDate
       \/ /\ pc = "box_call"
          /\ gst_in = NoGst
          /\ box_in \in BoxInputs
          /\ rates_in \in RateTables
          /\ args = <<>>
          /\ now = NoDate
       \/ /\ pc = "http_call"
          /\ gst_in = NoGst
          /\ box_in \in BoxInputs
          /\ rates_in = {}
          /\ args = <<>>
          /\ now = NoDate
       \/ /\ pc = "gstin_call"
          /\ gst_in = NoGst
          /\ box_in = NoBox
          /\ rates_in = {}
          /\ args \in [gstin : GstinInputs]
          /\ now = NoDate
       \/ /\ pc = "pair_call"
          /\ gst_in = NoGst
          /\ box_in = NoBox
          /\ rates_in = {}
          /\ args \in GstinPairs
          /\ now = NoDate
       \/ /\ pc = "inter_call"
          /\ gst_in = NoGst
          /\ box_in = NoBox
          /\ rates_in = {}
          /\ args \in [seller_gst : InterStateInputs, buyer_gst : InterStateInputs]
          /\ now = NoDate
       \/ /\ pc = "fy_call"
          /\ gst_in = NoGst
          /\ box_in = NoBox
          /\ rates_in = {}
          /\ args \in [date : {None} \cup {Some(d) : d \in Dates},
                       other : {Some(d) : d \in Dates}]
          /\ now \in Clock
       \/ /\ pc = "inv_call"
          /\ gst_in = NoGst
          /\ box_in = NoBox
          /\ rates_in = {}
          /\ args \in [prefix : Prefixes, sequence : SequenceNumbers,
                       financial_year : FinancialYears]
          /\ now \in Clock
       \/ /\ pc = "parse_call"
          /\ gst_in = NoGst
          /\ box_in = NoBox
          /\ rates_in = {}
          /\ args \in [invoice_number : InvoiceNumbers]
          /\ now = NoDate
       \/ /\ pc = "again_call"
          /\ gst_in = NoGst
          /\ box_in = NoBox
          /\ rates_in = {}
          /\ args \in RepeatedCalls
          /\ now \in Clock
       \/ /\ pc = "strength_call"
          /\ gst_in = NoGst
          /\ box_in = NoBox
          /\ rates_in = {}
          /\ args \in StrengthInputs
          /\ now = NoDate
       \/ /\ pc = "rate_call"
          /\ gst_in = NoGst
          /\ box_in = NoBox
          /\ rates_in = {}
          /\ args \in RateInputs
          /\ now = NoDate

\* gst_calculator.calculate_gst(amount, gst_rate, is_inter_state, discount_amount)
CalculateGst ==
    /\ pc = "gst_call"
    /\ gst_out' = Some(calculate_gst(gst_in.amount, gst_in.gst_rate,
                                     gst_in.is_inter_state, gst_in.discount_amount))
    /\ pc' = "gst_done"
    /\ UNCHANGED <<gst_in, rev_out, box_in, rates_in, box_out, box_exc, http_status>>
    /\ UNCHANGED <<heap, frames, args, ret, now>>

\* gst_calculator.calculate_reverse_gst(breakdown["total_amount"], gst_rate)
CalculateReverseGst ==
    /\ pc = "gst_done"
    /\ rev_out' = Some(calculate_reverse_gst(Val(gst_out).total_amount, gst_in.gst_rate))
    /\ pc' = "rev_done"
    /\ UNCHANGED <<gst_in, gst_out, box_in, rates_in, box_out, box_exc, http_status>>
    /\ UNCHANGED <<heap, frames, args, ret, now>>

\* calculator.calculate(spec, paper_rates), spec built by the caller
Calculate ==
    /\ pc = "box_call"
    /\ LET res == calculate(build_spec(box_in), rates_in)
       IN  /\ box_out' = res.result
           /\ box_exc' = res.exc
    /\ pc' = "box_done"
    /\ UNCHANGED <<gst_in, gst_out, rev_out, box_in, rates_in, http_status>>
    /\ UNCHANGED <<heap, frames, args, ret, now>>

\* POST /calculate
CalculateBoxCost ==
    /\ pc = "http_call"
    /\ LET resp == calculate_box_cost(box_in)
       IN  /\ box_out' = resp.body
           /\ box_exc' = resp.exc
           /\ http_status' = resp.status
    /\ pc' = "http_done"
    /\ UNCHANGED <<gst_in, gst_out, rev_out, box_in, rates_in>>
    /\ UNCHANGED <<heap, frames, args, ret, now>>

\* gst_calculator.validate_gstin(gstin)
ValidateGstin ==
    /\ pc = "gstin_call"
    /\ ret' = Some(validate_gstin(args.gstin))
    /\ pc' = "gstin_done"
    /\ UNCHANGED <<costing_vars, heap, frames, args, now>>

\* gst_calculator.validate_gstin(gstin), then the same for the other string
ValidateGstinOfPair ==
    /\ pc = "pair_call"
    /\ ret' = Some(<<validate_gstin(args.gstin)>>)
    /\ pc' = "pair_other"
    /\ UNCHANGED <<costing_vars, heap, frames, args, now>>

ValidateOtherOfPair ==
    /\ pc = "pair_other"
    /\ ret' = Some(Val(ret) \o <<validate_gstin(args.other)>>)
    /\ pc' = "pair_done"
    /\ UNCHANGED <<costing_vars, heap, frames, args, now>>

\* gst_calculator.determine_inter_state(seller_gst, buyer_gst)
DetermineInterState ==
    /\ pc = "inter_call"
    /\ ret' = Some(Returned(determine_inter_state(args.seller_gst, args.buyer_gst)))
    /\ pc' = "inter_done"
    /\ UNCHANGED <<costing_vars, heap, frames, args, now>>

\* invoice_number_generator.get_financial_year(date), then the same for
\* the other date
GetFinancialYear ==
    /\ pc = "fy_call"
    /\ ret' = Some(<<get_financial_year(args.date)>>)
    /\ pc' = "fy_other"
    /\ UNCHANGED <<costing_vars, heap, frames, args, now>>

GetFinancialYearOfOther ==
    /\ pc = "fy_other"
    /\ ret' = Some(Val(ret) \o <<get_financial_year(args.other)>>)
    /\ pc' = "fy_done"
    /\ UNCHANGED <<costing_vars, heap, frames, args, now>>

\* invoice_number_generator.generate_invoice_number(prefix, sequence, financial_year)
GenerateInvoiceNumber ==
    /\ pc = "inv_call"
    /\ ret' = Some(Returned(generate_invoice_number(args.prefix, args.sequence,
                                                     args.financial_year)))
    /\ pc' = "inv_done"
    /\ UNCHANGED <<costing_vars, heap, frames, args, now>>

\* invoice_number_generator.parse_sequence(num) of the number just generated
ParseGenerated ==
    /\ pc = "inv_done"
    /\ LET parsed == parse_sequence(Some(Val(ret).value))
       IN  ret' = Some([exc |-> parsed.exc, value |-> parsed.value,
                        invoice_number |-> Val(ret).value])
    /\ pc' = "round_done"
    /\ UNCHANGED <<costing_vars, heap, frames, args, now>>

\* invoice_number_generator.parse_sequence(invoice_number)
ParseSequence ==
    /\ pc = "parse_call"
    /\ ret' = Some(parse_sequence(args.invoice_number))
    /\ pc' = "parse_done"
    /\ UNCHANGED <<costing_vars, heap, frames, args, now>>

\* calculator._calculate_ect(layers) on the PaperLayer objects of the list
CalculateEct ==
    /\ pc = "strength_call"
    /\ ret' = Some([ect |-> calculate_ect(build_layers(args.paper_layers))])
    /\ pc' = "strength_bct"
    /\ UNCHANGED <<costing_vars, heap, frames, args, now>>

\* calculator._calculate_bct(ect, length, width, height, board_thickness)
CalculateBct ==
    /\ pc = "strength_bct"
    /\ LET thickness == calculate_board_thickness(build_layers(args.paper_layers),
                                                  args.fluting_factor)
       IN  ret' = Some([ect |-> Val(ret).ect,
                        bct |-> calculate_bct(Val(ret).ect, args.length, args.width,
                                              args.height, thickness)])
    /\ pc' = "strength_burst"
    /\ UNCHANGED <<costing_vars, heap, frames, args, now>>

\* calculator._calculate_burst_strength(layers)
CalculateBurstStrength ==
    /\ pc = "strength_burst"
    /\ ret' = Some([ect |-> Val(ret).ect, bct |-> Val(ret).bct,
                    burst_strength |->
                        calculate_burst_strength(build_layers(args.paper_layers))])
    /\ pc' = "strength_done"
    /\ UNCHANGED <<costing_vars, heap, frames, args, now>>

\* the first of two calls with the same arguments
CallOnce ==
    /\ pc = "again_call"
    /\ ret' = Some(<<repeated_call(args)>>)
    /\ pc' = "again_wait"
    /\ UNCHANGED <<costing_vars, heap, frames, args, now>>

\* time passes between the two calls
ClockAdvances ==
    /\ pc = "again_wait"
    /\ \E d \in LaterClock : later(d, now) /\ now' = d
    /\ pc' = "again_second"
    /\ UNCHANGED <<costing_vars, heap, frames, args, ret>>

\* the second call, with the arguments of the first
CallAgain ==
    /\ pc = "again_second"
    /\ ret' = Some(Val(ret) \o <<repeated_call(args)>>)
    /\ pc' = "again_done"
    /\ UNCHANGED <<costing_vars, heap, frames, args, now>>

\* pricing_calculator.calculate_paper_rate(bf, gsm, shade, bf_base_price, gsm_rules, shade_premium, market_adjustment)
CalculatePaperRate ==
    /\ pc = "rate_call"
    /\ ret' = Some(Returned(calculate_paper_rate(args.bf, args.gsm, args.shade,
                                                  args.bf_base_price, args.gsm_rules,
                                                  args.shade_premium,
                                                  args.market_adjustment)))
    /\ pc' = "rate_done"
    /\ UNCHANGED <<costing_vars, heap, frames, args, now>>

Next ==
    \/ CalculateGst
    \/ CalculateReverseGst
    \/ Calculate
    \/ CalculateBoxCost
    \/ ValidateGstin
    \/ DetermineInterState
    \/ ValidateGstinOfPair
    \/ ValidateOtherOfPair
    \/ GetFinancialYear
    \/ GetFinancialYearOfOther
    \/ GenerateInvoiceNumber
    \/ ParseGenerated
    \/ ParseSequence
    \/ CalculatePaperRate
    \/ CalculateEct
    \/ CalculateBct
    \/ CalculateBurstStrength
    \/ CallOnce
    \/ ClockAdvances
    \/ CallAgain

Spec == Init /\ [][Next]_vars

(***************************************************************************)
(* Concurrent calls of calculator.calculate on the module singleton.       *)
(* BoxCalculator has no __init__ and no instance attribute; a call reads   *)
(* its arguments and the class constants and writes its own local result.  *)
(* Calls 1 and 2 are given the same specification object "A" and the same  *)
(* rate table; call 3 is given another specification "B" and another       *)
(* table.  Each numbered step of calculate is one atomic step of a call.   *)
(***************************************************************************)
MaxCallLayers == 2   \* layer lists of length 0..MaxCallLayers in SpecCalls

Calls == {1, 2, 3}
ObjectOf(c) == IF c = 3 THEN "B" ELSE "A"

CallLayerLists == UNION {[1..n -> LayerData] : n \in 0..MaxCallLayers}

CallInputs ==
    [length : {10}, width : {10}, height : {10}, ply : {3}, quantity : {7},
     paper_layers : CallLayerLists, fluting_factor : {135},
     conversion_rate : {1500}, printing_cost : {250}, die_cost : {125}]

OtherInputs ==
    {[length |-> 15, width |-> 10, height |-> 10, ply |-> 3, quantity |-> 1,
      paper_layers |-> <<>>, fluting_factor |-> 135, conversion_rate |-> 1500,
      printing_cost |-> 0, die_cost |-> 0],
     [length |-> 15, width |-> 10, height |-> 10, ply |-> 3, quantity |-> 1,
      paper_layers |-> <<[bf |-> 18, gsm |-> 150, shade |-> "kraft", is_flute |-> TRUE]>>,
      fluting_factor |-> 135, conversion_rate |-> 1500,
      printing_cost |-> 0, die_cost |-> 0]}

OtherRates == {<<18, 150, "kraft", 4550>>}

\* line 96: result = CalculationResult(), a local of the call
NewFrame == [step |-> 0, status |-> "running", result |-> None, exc |-> ""]

\* the frame after the next step of calculate (lines 96-151), reading the
\* specification and the rate table the call was given
NextFrame(f, spec, paper_rates) ==
    LET r == Val(f.result)
        set(res) == [f EXCEPT !.step = f.step + 1, !.result = Some(res)]
    IN  CASE f.step = 0 -> set(CalculationResult)
          [] f.step = 1 ->
               LET dims == calculate_sheet_dimensions(spec.length, spec.width, spec.height)
               IN  set([r EXCEPT !.sheet_length = dims.sheet_length,
                                 !.sheet_width = dims.sheet_width,
                                 !.sheet_area = dims.sheet_length * dims.sheet_width])
          [] f.step = 2 ->
               set([r EXCEPT !.paper_weight =
                      calculate_paper_weight(r.sheet_area, spec.paper_layers,
                                             spec.fluting_factor)])
          [] f.step = 3 ->
               set([r EXCEPT !.board_thickness =
                      calculate_board_thickness(spec.paper_layers, spec.fluting_factor)])
          [] f.step = 4 ->
               LET paper == calculate_paper_cost(r.paper_weight, spec.paper_layers,
                                                 paper_rates)
               IN  IF paper.exc # ""
                   THEN [f EXCEPT !.status = "raised", !.result = None,
                                  !.exc = paper.exc]
                   ELSE set([r EXCEPT !.paper_cost = paper.value])
          [] f.step = 5 ->
               set([r EXCEPT !.manufacturing_cost = spec.printing_cost + spec.die_cost])
          [] f.step = 6 ->
               set([r EXCEPT !.conversion_cost = r.paper_weight * spec.conversion_rate])
          [] f.step = 7 ->
               set([r EXCEPT !.unit_cost =
                      (r.paper_cost + r.manufacturing_cost) * 10000 + r.conversion_cost])
          [] f.step = 8 ->
               set([r EXCEPT !.total_cost = total_cost_of(r.unit_cost, spec.quantity)])
          [] f.step = 9 ->
               set([r EXCEPT !.ect = calculate_ect(spec.paper_layers)])
          [] f.step = 10 ->
               set([r EXCEPT !.bct = calculate_bct(r.ect, spec.length, spec.width,
                                                   spec.height, r.board_thickness)])
          [] f.step = 11 ->
               set([r EXCEPT !.burst_strength =
                      calculate_burst_strength(spec.paper_layers)])
          [] OTHER -> [f EXCEPT !.status = "returned"]

InitCalls ==
    /\ pc = "calls"
    /\ gst_in = NoGst
    /\ gst_out = None
    /\ rev_out = None
    /\ box_in \in CallInputs
    /\ rates_in \in RateTables
    /\ box_out = None
    /\ box_exc = ""
    /\ http_status = 0
    /\ \E other \in OtherInputs :
          heap = [spec |-> [o \in {"A", "B"} |->
                              IF o = "A" THEN build_spec(box_in) ELSE build_spec(other)],
                  rates |-> [o \in {"A", "B"} |->
                              IF o = "A" THEN rates_in ELSE OtherRates]]
    /\ frames = [c \in Calls |-> NewFrame]
    /\ args = <<>>
    /\ ret = None
    /\ now = NoDate

CalculateStepConsumingLayers(c) ==
    /\ frames[c].status = "running"
    /\ frames' = [frames EXCEPT ![c] =
                    NextFrame(frames[c], heap.spec[ObjectOf(c)], heap.rates[ObjectOf(c)])]
    /\ heap' = IF frames[c].step = 3
               THEN [heap EXCEPT !.spec[ObjectOf(c)].paper_layers = <<>>]
               ELSE heap
    /\ UNCHANGED <<pc, costing_vars, text_vars>>

\* one step of call c; nothing but the call's own frame is written
CalculateStep(c) ==
    /\ frames[c].status = "running"
    /\ frames' = [frames EXCEPT ![c] =
                    NextFrame(frames[c], heap.spec[ObjectOf(c)], heap.rates[ObjectOf(c)])]
    /\ UNCHANGED <<pc, costing_vars, text_vars, heap>>

NextCalls == \E c \in Calls : CalculateStep(c)

SpecCalls == InitCalls /\ [][NextCalls]_vars

(***************************************************************************)
(* Properties.                                                             *)
(***************************************************************************)
GstReturned == gst_out # None
Breakdown == Val(gst_out)

\* q is n/d (d > 0) rounded to the nearest integer
IsNearest(q, n, d) == 2 * Abs(d * q - n) <= d

\* q is n/d (d > 0) rounded to the nearest integer, a tie away from zero
IsHalfUp(q, n, d) ==
    /\ IsNearest(q, n, d)
    /\ 2 * Abs(d * q - n) = d => Abs(d * q) > Abs(n)

\* C1: in every intra-state breakdown cgst + sgst equals total_gst exactly,
\* also when total_gst is an odd number of paise.
C1_HalvesSumToTotal ==
    (GstReturned /\ ~gst_in.is_inter_state)
        => Breakdown.cgst + Breakdown.sgst = Breakdown.total_gst

C1_OddTotalSplit ==
    /\ GstReturned
    /\ ~gst_in.is_inter_state
    /\ Breakdown.total_gst % 2 = 1
    /\ Breakdown.total_gst > 1

\* C2: in every breakdown total_amount is taxable_value + total_gst, where
\* taxable_value is amount - discount_amount rounded to two decimals and
\* floored at 0.
C2_TotalAmountIsTaxablePlusGst ==
    GstReturned =>
        LET n == gst_in.amount - gst_in.discount_amount
        IN  \E q \in {n \div 10, (n \div 10) + 1} :
                /\ IsNearest(q, n, 10)
                /\ Breakdown.total_amount = Max(0, q) + Breakdown.total_gst

C2_DiscountedTotal ==
    /\ GstReturned
    /\ gst_in.discount_amount > 0
    /\ gst_in.amount > gst_in.discount_amount + 10
    /\ Breakdown.total_gst > 0

\* C3 as stated: in every breakdown exactly one of cgst + sgst and igst is
\* non-zero.
C3_ExactlyOneNonZero ==
    GstReturned =>
        ((Breakdown.cgst + Breakdown.sgst # 0) # (Breakdown.igst # 0))

\* C3 as amended: cgst + sgst and igst are never both non-zero; exactly one
\* of them is non-zero when total_gst is non-zero, and both are zero when
\* total_gst is zero.
C3_OneNonZeroUnlessNoTax ==
    GstReturned =>
        /\ ~(Breakdown.cgst + Breakdown.sgst # 0 /\ Breakdown.igst # 0)
        /\ Breakdown.total_gst # 0 =>
             ((Breakdown.cgst + Breakdown.sgst # 0) # (Breakdown.igst # 0))
        /\ Breakdown.total_gst = 0 =>
             (Breakdown.cgst + Breakdown.sgst = 0 /\ Breakdown.igst = 0)

C3_InterStateTaxed ==
    /\ GstReturned
    /\ gst_in.is_inter_state
    /\ Breakdown.igst > 0
    /\ Breakdown.cgst + Breakdown.sgst = 0

\* C4: the whole tax goes by jurisdiction: inter-state, igst = total_gst and
\* cgst = sgst = 0; intra-state, igst = 0 and cgst + sgst carry total_gst.
C4_TaxByJurisdiction ==
    GstReturned =>
        /\ gst_in.is_inter_state =>
             /\ Breakdown.igst = Breakdown.total_gst
             /\ Breakdown.cgst = 0
             /\ Breakdown.sgst = 0
        /\ ~gst_in.is_inter_state =>
             /\ Breakdown.igst = 0
             /\ Breakdown.cgst + Breakdown.sgst = Breakdown.total_gst
             /\ Breakdown.total_gst > 0 => Breakdown.cgst > 0

C4_InterStateWithDiscount ==
    /\ GstReturned
    /\ gst_in = [amount |-> 1000000, gst_rate |-> 180, is_inter_state |-> TRUE,
                 discount_amount |-> 200000]
    /\ Breakdown.igst = 14400
    /\ Breakdown.cgst = 0

\* C5: the discount is applied before tax and each field is rounded half-up:
\* taxable_value = max(0, round_half_up(amount - discount_amount)) and
\* total_gst = round_half_up(taxable_value * gst_rate / 100); 1000 at 18%
\* gives 180.00, 1000 less 200 at 18% gives 144.00 and a total of 944.00.
C5_DiscountBeforeTaxHalfUp ==
    GstReturned =>
        LET n == gst_in.amount - gst_in.discount_amount
            tv == Breakdown.total_amount - Breakdown.total_gst
        IN  /\ \E q \in {n \div 10, (n \div 10) + 1} :
                   IsHalfUp(q, n, 10) /\ tv = Max(0, q)
            /\ IsHalfUp(Breakdown.total_gst, tv * gst_in.gst_rate, 1000)
            /\ (gst_in.amount = 1000000 /\ gst_in.gst_rate = 180
                  /\ gst_in.discount_amount = 0)
                 => Breakdown.total_gst = 18000
            /\ (gst_in.amount = 1000000 /\ gst_in.gst_rate = 180
                  /\ gst_in.discount_amount = 200000)
                 => (Breakdown.total_gst = 14400 /\ Breakdown.total_amount = 94400)

\* both roundings land on a tie: 0.005 taxable, then 0.5 paisa of tax
C5_TiesRoundedUp ==
    /\ GstReturned
    /\ gst_in.amount - gst_in.discount_amount = 5
    /\ gst_in.discount_amount > 0
    /\ gst_in.gst_rate = 500
    /\ Breakdown.total_gst = 1
    /\ Breakdown.total_amount = 2

\* C6: with gst_rate >= 0 no field of the breakdown is negative, and when
\* the discount exceeds the amount all of cgst, sgst, igst, total_gst and
\* total_amount are 0.
C6_DiscountClampedToZero ==
    (GstReturned /\ gst_in.gst_rate >= 0) =>
        /\ Breakdown.cgst >= 0
        /\ Breakdown.sgst >= 0
        /\ Breakdown.igst >= 0
        /\ Breakdown.total_gst >= 0
        /\ Breakdown.total_amount >= 0
        /\ gst_in.discount_amount > gst_in.amount =>
             /\ Breakdown.cgst = 0
             /\ Breakdown.sgst = 0
             /\ Breakdown.igst = 0
             /\ Breakdown.total_gst = 0
             /\ Breakdown.total_amount = 0

C6_DiscountExceedsAmount ==
    /\ GstReturned
    /\ gst_in.gst_rate > 0
    /\ gst_in.discount_amount >= gst_in.amount + 10
    /\ gst_in.amount > 0
    /\ Breakdown.total_amount = 0

\* C7: for an amount X >= 0 in whole paise and a rate r >= 0,
\* calculate_reverse_gst(calculate_gst(X, r, false, 0).total_amount, r) = X;
\* 1180.00 at 18% gives 1000.00.
C7_ReverseInvertsForward ==
    (/\ pc = "rev_done"
     /\ ~gst_in.is_inter_state
     /\ gst_in.discount_amount = 0
     /\ gst_in.amount >= 0
     /\ gst_in.amount % 10 = 0
     /\ gst_in.gst_rate >= 0)
        => /\ Val(rev_out) * 10 = gst_in.amount
           /\ (Breakdown.total_amount = 118000 /\ gst_in.gst_rate = 180)
                => Val(rev_out) = 100000

\* the tax of 0.02 at 18% rounds down to 0.00, and 0.02 * 100 / 118 up to 0.02
C7_RoundTripAcrossRounding ==
    /\ pc = "rev_done"
    /\ ~gst_in.is_inter_state
    /\ gst_in.discount_amount = 0
    /\ gst_in.amount = 20
    /\ gst_in.gst_rate = 180
    /\ Breakdown.total_amount = 2
    /\ Val(rev_out) = 2

PositiveDimensions(data) ==
    /\ data.length > 0
    /\ data.width > 0
    /\ data.height > 0
    /\ data.quantity > 0

\* the valid inputs of a costing call: positive dimensions and quantity, ply
\* in 3..9, as many layers as ply, each with a positive bf and gsm
ValidInput(data) ==
    /\ PositiveDimensions(data)
    /\ data.ply \in 3..9
    /\ Len(data.paper_layers) = data.ply
    /\ \A i \in 1..Len(data.paper_layers) :
          data.paper_layers[i].bf > 0 /\ data.paper_layers[i].gsm > 0

\* C8: for every valid specification calculate returns a result with
\* unit_cost = paper_cost + manufacturing_cost + conversion_cost and
\* total_cost = unit_cost * quantity.
C8_TotalCostIdentity ==
    (pc = "box_done" /\ ValidInput(box_in)) =>
        /\ box_out # None
        /\ Val(box_out).unit_cost =
             (Val(box_out).paper_cost + Val(box_out).manufacturing_cost) * 10000
               + Val(box_out).conversion_cost
        /\ Val(box_out).total_cost = Val(box_out).unit_cost * box_in.quantity

\* C9: for every valid input calculate returns a CalculationResult and
\* raises nothing, and the calculate_box_cost endpoint answers a valid
\* request with the result.
C9_ValidInputReachesNoError ==
    /\ (pc = "box_done" /\ ValidInput(box_in)) =>
          (box_exc = "" /\ box_out # None)
    /\ (pc = "http_done" /\ ValidInput(box_in)) =>
          (http_status = 200 /\ box_exc = "" /\ box_out # None)

NoLinerLayer(layer_data) ==
    \A i \in 1..Len(layer_data) : layer_data[i].is_flute

\* C10: for a layer list without a liner layer, empty or all flute,
\* calculate returns a result whose ect, bct and burst_strength are None
\* (stated for specifications with positive dimensions and quantity).
C10_NoLinerNoStrength ==
    (/\ pc = "box_done"
     /\ PositiveDimensions(box_in)
     /\ NoLinerLayer(box_in.paper_layers)) =>
        /\ box_out # None
        /\ Val(box_out).ect = None
        /\ Val(box_out).bct = None
        /\ Val(box_out).burst_strength = None

\* the inputs the costing contract rejects: a non-positive dimension or
\* quantity, a ply outside 3..9, or a layer count other than ply
InvalidCostingInput(data) ==
    \/ ~PositiveDimensions(data)
    \/ data.ply \notin 3..9
    \/ Len(data.paper_layers) # data.ply

\* C11: invalid costing input is rejected before computation: a request
\* with such input never produces a CalculationResult.
C11_InvalidInputNoResult ==
    (pc = "http_done" /\ InvalidCostingInput(box_in))
        => (box_out = None /\ http_status # 200)

RECURSIVE claimed_rate_sum(_, _)
\* sum of rate * gsm over the layers, each rate looked up under the layer's
\* (bf, gsm, shade) and 0 when the key is missing
claimed_rate_sum(layer_data, rates) ==
    IF layer_data = <<>> THEN 0
    ELSE (IF \E t \in rates : /\ t[1] = Head(layer_data).bf
                              /\ t[2] = Head(layer_data).gsm
                              /\ t[3] = Head(layer_data).shade
          THEN (CHOOSE t \in rates : /\ t[1] = Head(layer_data).bf
                                     /\ t[2] = Head(layer_data).gsm
                                     /\ t[3] = Head(layer_data).shade)[4]
          ELSE 0) * Head(layer_data).gsm
         + claimed_rate_sum(Tail(layer_data), rates)

RECURSIVE claimed_gsm_sum(_)
claimed_gsm_sum(layer_data) ==
    IF layer_data = <<>> THEN 0
    ELSE Head(layer_data).gsm + claimed_gsm_sum(Tail(layer_data))

\* C12: the paper-cost step prices each layer at the rate stored under its
\* (bf, gsm, shade), a missing key at 0, and the calculation completes; the
\* weighted rate is sum(rate * gsm) / sum(gsm), and 0 when sum(gsm) is 0
\* (stated for valid specifications).
C12_MissingRateIsZero ==
    (pc = "box_done" /\ ValidInput(box_in)) =>
        /\ box_exc = ""
        /\ box_out # None
        /\ LET total_gsm == claimed_gsm_sum(box_in.paper_layers)
               total_rate == claimed_rate_sum(box_in.paper_layers, rates_in)
           IN  /\ total_gsm = 0 => Val(box_out).paper_cost = 0
               /\ total_gsm > 0 =>
                    IsNearest(Val(box_out).paper_cost,
                              Val(box_out).paper_weight * total_rate,
                              total_gsm * 10000)

\* the outcome of a finished call: its result, or the exception it raised
Outcome(c) == [result |-> frames[c].result, exc |-> frames[c].exc]
Finished(c) == frames[c].status # "running"

\* C13: calculate is pure and deterministic: two calls given the same
\* specification and rate table end with the same outcome in every field,
\* whatever other call ran before or runs concurrently, and the
\* specification, its layers and the rate table stay as they were given.
C13_CalculateIsPure ==
    /\ heap.spec["A"] = build_spec(box_in)
    /\ heap.rates["A"] = rates_in
    /\ heap.rates["B"] = OtherRates
    /\ heap.spec["B"] \in {build_spec(other) : other \in OtherInputs}
    /\ (Finished(1) /\ Finished(2)) => Outcome(1) = Outcome(2)
    /\ \A c \in {1, 2} :
          Finished(c) => Outcome(c) = calculate(build_spec(box_in), rates_in)

\* both calls returned a result while the call on the other specification
\* was in the middle of its steps
C13_BothReturnedOtherRunning ==
    /\ frames[1].status = "returned"
    /\ frames[2].status = "returned"
    /\ frames[3].status = "running"
    /\ frames[3].step = 5
    /\ Val(frames[1].result).total_cost > 0

\* C14: validate_gstin is true exactly for a string of 15 characters whose
\* first two are a valid state code, characters 3-7 letters, 8-11 digits,
\* character 12 a letter and character 13 alphanumeric; the five GSTINs of
\* the tests get the stated answers.
C14_ValidExactlyWhenWellFormed ==
    (pc = "gstin_done" /\ ~IsNone(args.gstin)) =>
        LET text == Val(args.gstin)
            well_formed ==
                /\ Len(text) = 15
                /\ <<text[1], text[2]>> \in VALID_STATE_CODES
                /\ \A i \in 3..7 : text[i] \in Letters
                /\ \A i \in 8..11 : text[i] \in Digits
                /\ text[12] \in Letters
                /\ text[13] \in Letters \cup Digits
        IN  /\ Val(ret).exc = ""
            /\ Val(ret).value = well_formed
            /\ text \in {GSTIN_27, GSTIN_06} => Val(ret).value = TRUE
            /\ text \in {GSTIN_short, GSTIN_long, GSTIN_00} => Val(ret).value = FALSE

\* a GSTIN outside the tests is accepted with a 13th character
\* that is a lower-case letter
C14_AcceptedLetterEntity ==
    /\ pc = "gstin_done"
    /\ args.gstin = Some([GSTIN_27 EXCEPT ![13] = "a"])
    /\ Val(ret).value = TRUE

\* C15: validate_gstin returns a boolean and never raises, for None, the
\* empty string and strings of any length.
C15_ValidateNeverRaises ==
    pc = "gstin_done" => (Val(ret).exc = "" /\ Val(ret).value \in BOOLEAN)

\* None was validated and answered False
C15_NoneIsInvalid ==
    /\ pc = "gstin_done"
    /\ IsNone(args.gstin)
    /\ Val(ret).exc = ""
    /\ Val(ret).value = FALSE

has_prefix(gstin) == ~IsNone(gstin) /\ Len(Val(gstin)) >= 2

\* C16: determine_inter_state is true exactly when both GSTINs have a
\* 2-character prefix and the prefixes differ; false when they are equal or
\* either GSTIN is None, empty or shorter than 2 characters.
C16_InterStateIffPrefixesDiffer ==
    pc = "inter_done" =>
        Val(ret).value =
            (/\ has_prefix(args.seller_gst)
             /\ has_prefix(args.buyer_gst)
             /\ \E i \in 1..2 : Val(args.seller_gst)[i] # Val(args.buyer_gst)[i])

\* two different GSTINs of the same state are intra-state
C16_SameStateDifferentGstin ==
    /\ pc = "inter_done"
    /\ args.seller_gst = Some(GSTIN_27)
    /\ args.buyer_gst = Some(GSTIN_27_other)
    /\ Val(ret).value = FALSE

\* the date a call of get_financial_year works on
effective_date(date) == IF IsNone(date) THEN now ELSE Val(date)

\* the calendar year in which the date's April-March fiscal year starts
fiscal_start_year(d) == IF d.month >= 4 THEN d.year ELSE d.year - 1

four_digits(n) == two_digits(n \div 100) \o two_digits(n % 100)

\* C17: get_financial_year gives '<year>-<last two digits of year+1>' for
\* month >= 4 and '<year-1>-<last two digits of year>' otherwise; two dates
\* get the same label exactly when they lie in the same April-March year;
\* 2025-03-31 gives 2024-25 and 2025-04-01 gives 2025-26.
C17_AprilToMarchLabel ==
    pc = "fy_done" =>
        LET d1 == effective_date(args.date)
            d2 == Val(args.other)
            label(d) == four_digits(fiscal_start_year(d)) \o <<"-">>
                            \o two_digits((fiscal_start_year(d) + 1) % 100)
        IN  /\ Val(ret)[1] = label(d1)
            /\ Val(ret)[2] = label(d2)
            /\ (Val(ret)[1] = Val(ret)[2]) <=> (fiscal_start_year(d1) = fiscal_start_year(d2))
            /\ d1 = [year |-> 2025, month |-> 3, day |-> 31] => Val(ret)[1] = FY_2024_25
            /\ d1 = [year |-> 2025, month |-> 4, day |-> 1] => Val(ret)[1] = FY_2025_26

\* 31 March 2025 and the following 1 April were labelled differently
C17_BoundaryDaysDiffer ==
    /\ pc = "fy_done"
    /\ args.date = Some([year |-> 2025, month |-> 3, day |-> 31])
    /\ args.other = Some([year |-> 2025, month |-> 4, day |-> 1])
    /\ Val(ret) = <<FY_2024_25, FY_2025_26>>

decimal_length(n) == CHOOSE k \in 1..7 : n < 10^k /\ (k = 1 \/ n >= 10^(k - 1))

C19_ParseRecoversSequence ==
    (pc = "round_done" /\ args.sequence >= 1) =>
        (Val(ret).exc = "" /\ Val(ret).value = args.sequence)

\* a five-digit sequence came back whole from a number whose prefix and
\* financial year contain '/'
C19_FiveDigitRoundTrip ==
    /\ pc = "round_done"
    /\ args.sequence = 12345
    /\ args.prefix = <<"A", "/", "B">>
    /\ args.financial_year = Some(<<"2", "4", "/", "2", "5">>)
    /\ Val(ret).invoice_number = <<"A", "/", "B", "/", "F", "Y", "2", "4", "/", "2", "5", "/", "1", "2", "3", "4", "5">>
    /\ Val(ret).value = 12345

\* the text after the last '/', or the whole text if there is none
last_segment(text) ==
    LET slashes == {i \in 1..Len(text) : text[i] = "/"}
        last == IF slashes = {} THEN 0
                ELSE CHOOSE i \in slashes : \A j \in slashes : j <= i
    IN  SubSeq(text, last + 1, Len(text))

\* no digit at all, or a character that no integer literal contains
not_an_integer(segment) ==
    \/ \A i \in 1..Len(segment) : segment[i] \notin Digits
    \/ \E i \in 1..Len(segment) : segment[i] \notin Digits \cup {"+", "-", "_", " "}

\* C20: parse_sequence never raises; it returns 0 for None, for the empty
\* string and for a string whose last segment is not an integer.
C20_ParseNeverRaises ==
    /\ pc \in {"parse_done", "round_done"} =>
          (Val(ret).exc = "" /\ Val(ret).value \in Int)
    /\ pc = "parse_done" =>
          /\ ~truthy(args.invoice_number) => Val(ret).value = 0
          /\ (/\ truthy(args.invoice_number)
              /\ not_an_integer(last_segment(Val(args.invoice_number))))
             => Val(ret).value = 0

\* a number whose last segment is letters parsed to 0
C20_LettersParseToZero ==
    /\ pc = "parse_done"
    /\ args.invoice_number = Some(<<"I", "N", "V", "/", "F", "Y", "2", "0", "2", "4", "-", "2", "5", "/", "A", "B", "C">>)
    /\ Val(ret).exc = ""
    /\ Val(ret).value = 0

\* the thresholds and adjustments in force, the defaults where a key is absent
low_threshold(gsm_rules) == rules_get(gsm_rules, "low_gsm_threshold", 101)
high_threshold(gsm_rules) == rules_get(gsm_rules, "high_gsm_threshold", 201)
low_adjustment(gsm_rules) == rules_get(gsm_rules, "low_gsm_adjustment", 0)
high_adjustment(gsm_rules) == rules_get(gsm_rules, "high_gsm_adjustment", 0)

\* C21: calculate_paper_rate is the sum of base price, one GSM adjustment,
\* shade premium and market adjustment, rounded to 2 decimals; the
\* adjustment is the low one if gsm <= low threshold, else the high one if
\* gsm >= high threshold, else none; never both, and the low one alone when
\* gsm passes both tests.
C21_OneGsmAdjustment ==
    pc = "rate_done" =>
        LET rules == args.gsm_rules
            low == args.gsm <= low_threshold(rules)
            high == args.gsm >= high_threshold(rules)
            rest == args.bf_base_price + args.shade_premium + args.market_adjustment
            rate == Val(ret).value
        IN  /\ low => IsNearest(rate, rest + low_adjustment(rules), 10)
            /\ (~low /\ high) => IsNearest(rate, rest + high_adjustment(rules), 10)
            /\ (~low /\ ~high) => IsNearest(rate, rest, 10)

\* gsm passed both tests and only the low adjustment was added
C21_OverlapLowWins ==
    /\ pc = "rate_done"
    /\ args.gsm = 150
    /\ low_threshold(args.gsm_rules) = 200
    /\ high_threshold(args.gsm_rules) = 100
    /\ args.bf_base_price = 45004
    /\ args.shade_premium = 2500
    /\ args.market_adjustment = 508
    /\ Val(ret).value = 4651

\* the argument that decides the financial year was given and is not empty
year_argument_supplied(a) ==
    IF a.op = "get_financial_year" THEN ~IsNone(a.date) ELSE truthy(a.financial_year)

\* the April-March label of a date
fiscal_label(d) ==
    four_digits(fiscal_start_year(d)) \o <<"-">>
        \o two_digits((fiscal_start_year(d) + 1) % 100)

\* C22: two calls of get_financial_year or generate_invoice_number with
\* identical arguments return identical strings whenever they are made,
\* also when the date or financial_year argument is absent or empty.
C22_SameArgumentsSameString ==
    pc = "again_done" => Val(ret)[1] = Val(ret)[2]

\* C22 as amended: with the date (the financial year) supplied and not empty
\* the two calls return the same string whatever the clock shows; with it
\* absent or empty each call returns the string for the clock's date at the
\* time of the call.
C22_SameStringWhenYearSupplied ==
    pc = "again_done" =>
        /\ year_argument_supplied(args) => Val(ret)[1] = Val(ret)[2]
        /\ (~year_argument_supplied(args) /\ args.op = "get_financial_year")
              => Val(ret)[2] = fiscal_label(now)
        /\ (~year_argument_supplied(args) /\ args.op = "generate_invoice_number")
              => Val(ret)[2] = args.prefix \o <<"/", "F", "Y">> \o fiscal_label(now)
                                   \o <<"/">> \o format_04d(args.sequence)

\* the clock moved from March 2026 into a later fiscal year between two
\* calls with a supplied date, and the strings are equal
C22_SuppliedDateAcrossYears ==
    /\ pc = "again_done"
    /\ args.op = "get_financial_year"
    /\ args.date = Some([year |-> 2025, month |-> 3, day |-> 31])
    /\ now = [year |-> 2027, month |-> 4, day |-> 1]
    /\ Val(ret) = <<FY_2024_25, FY_2024_25>>

\* C26: validate_gstin gives the same result for two 15-character strings
\* that are equal in positions 1-13, whatever their 14th and 15th
\* characters are.
C26_LastTwoCharactersIgnored ==
    pc = "pair_done" =>
        /\ Val(ret)[1].exc = ""
        /\ Val(ret)[2].exc = ""
        /\ Val(ret)[1].value = Val(ret)[2].value

\* a GSTIN and the same with 'Z' and checksum replaced were both accepted
C26_AcceptedWithoutZ ==
    /\ pc = "pair_done"
    /\ args.gstin = Some(GSTIN_27)
    /\ args.other = Some(py_slice(GSTIN_27, 0, 13) \o <<"-", "5">>)
    /\ Val(ret)[1].value = TRUE
    /\ Val(ret)[2].value = TRUE

\* the bf sum of the liner (non-flute) entries of a layer list
RECURSIVE claimed_liner_bf(_)
claimed_liner_bf(layer_data) ==
    IF layer_data = <<>> THEN 0
    ELSE (IF Head(layer_data).is_flute THEN 0 ELSE Head(layer_data).bf)
         + claimed_liner_bf(Tail(layer_data))

C28_ExtraPaisaToCgst ==
    (GstReturned /\ ~gst_in.is_inter_state /\ gst_in.gst_rate >= 0) =>
        /\ Breakdown.cgst - Breakdown.sgst = Breakdown.total_gst % 2
        /\ Breakdown.sgst >= 0

\* a tax of one paisa went to cgst whole
C28_OnePaisaTax ==
    /\ GstReturned
    /\ ~gst_in.is_inter_state
    /\ gst_in.gst_rate > 0
    /\ Breakdown.total_gst = 1
    /\ Breakdown.cgst = 1
    /\ Breakdown.sgst = 0

(***************************************************************************)
(* The invoice endpoints (routers/invoices.py) over the invoices table.    *)
(* heap is the database: the rows of the invoices table in id order and    *)
(* the company profile of each tenant.  frames holds one frame per request;*)
(* the requests run concurrently, each await of a handler ending one step. *)
(* An attribute exists on a request body or on a mapped object when the    *)
(* schema or the mapped class declares it.                                 *)
(***************************************************************************)
MaxRequests == 2     \* requests 1..MaxRequests run concurrently

Requests == 1..MaxRequests
Tenants == {1, 2}

InvoiceCreateFields == {"invoice_date", "due_date", "buyer_name", "buyer_address", "buyer_gst", "buyer_pan", "subtotal", "gst_rate", "notes", "terms"}

BaseMixinColumns == {"id", "created_at", "updated_at"}
TenantMixinColumns == {"tenant_id"}

CompanyProfileColumns == BaseMixinColumns \cup TenantMixinColumns \cup {"user_id", "company_name", "gst_number", "pan_number", "state_code", "email", "phone", "alternate_phone", "website", "address_line1", "address_line2", "city", "state", "pincode", "country", "logo_url", "primary_color", "secondary_color", "bank_name", "account_number", "ifsc_code", "branch_name", "payment_terms", "delivery_terms", "is_default", "is_locked", "gst_verified", "verification_date", "is_active"}

InvoiceColumns == BaseMixinColumns \cup TenantMixinColumns \cup {"user_id", "quote_id", "invoice_number", "financial_year", "seller_profile", "buyer_profile", "invoice_date", "due_date", "items", "subtotal", "discount_amount", "cgst_amount", "sgst_amount", "igst_amount", "total_gst", "total_amount", "gst_rate", "is_inter_state", "place_of_supply", "payment_terms", "status", "paid_at", "payment_reference", "pdf_url", "pdf_generated_at", "notes", "is_locked"}

\* the columns of Invoice that are NOT NULL and have no default
InvoiceRequired == {"tenant_id", "user_id", "invoice_number", "financial_year", "seller_profile", "buyer_profile", "invoice_date", "items", "subtotal", "total_gst", "total_amount", "gst_rate", "is_inter_state", "place_of_supply"}

PaymentTransactionColumns == BaseMixinColumns \cup {"user_id", "invoice_id", "transaction_id", "gateway", "gateway_order_id", "gateway_payment_id", "gateway_signature", "amount", "currency", "status", "payment_method", "initiated_at", "completed_at", "payment_metadata", "error_message"}

\* the keyword arguments of Invoice(...) in create_invoice
InvoiceKwargs == {"tenant_id", "invoice_number", "financial_year", "invoice_date", "due_date", "seller_name", "seller_address", "seller_gst", "seller_pan", "buyer_name", "buyer_address", "buyer_gst", "buyer_pan", "subtotal", "discount_amount", "cgst", "sgst", "igst", "total_gst", "total_amount", "notes", "terms", "status"}

\* the keyword arguments of PaymentTransaction(...) in mark_invoice_paid
PaymentTransactionKwargs == {"tenant_id", "invoice_id", "amount", "currency", "payment_method", "external_transaction_id", "status"}

\* the attributes of the invoice that the PDF dictionary reads without a
\* hasattr guard
InvoiceDictReads == {"invoice_number", "invoice_date", "due_date", "seller_name", "seller_address", "seller_gst", "seller_pan", "buyer_name", "buyer_address", "buyer_gst", "buyer_pan", "subtotal", "cgst", "sgst", "igst", "total_gst", "total_amount", "notes", "terms"}

\* a row of the invoices table, and the session's object loaded from it
InvoiceRow(id, tenant_id, invoice_number, financial_year, status) == [id |-> id, tenant_id |-> tenant_id, invoice_number |-> invoice_number, financial_year |-> financial_year, status |-> status]

\* the frame of a request that has not started
NewRequest(op, tenant_id, invoice_id, invoice_date) == [op |-> op, tenant_id |-> tenant_id, invoice_id |-> invoice_id, invoice_date |-> invoice_date, step |-> "start", status |-> "running", status_code |-> 0, exc |-> "", company |-> None, financial_year |-> <<>>, last_sequence |-> 0, invoice_number |-> <<>>, invoice |-> None]

\* raise HTTPException(status_code=...)
http_exception(f, status_code) == [f EXCEPT !.status = "raised", !.exc = "HTTPException", !.status_code = status_code]

\* an exception leaving the handler
raise(f, exc) == [f EXCEPT !.status = "raised", !.exc = exc]

\* select(CompanyProfile).where(tenant_id == ...) ... scalar_one_or_none()
company_of(store, tenant_id) == store.companies[tenant_id]

\* the rows of one tenant and financial year, in id order
RECURSIVE rows_of(_, _, _)
rows_of(invoices, tenant_id, financial_year) ==
    IF Len(invoices) = 0 THEN <<>>
    ELSE LET rest == rows_of(Tail(invoices), tenant_id, financial_year)
             row == Head(invoices)
         IN  IF row.tenant_id = tenant_id /\ row.financial_year = financial_year
             THEN <<row>> \o rest ELSE rest

\* select(Invoice.invoice_number).where(tenant, year).order_by(desc(id)).limit(1)
last_number_of(store, tenant_id, financial_year) ==
    LET rows == rows_of(store.invoices, tenant_id, financial_year)
    IN  IF Len(rows) = 0 THEN None ELSE Some(rows[Len(rows)].invoice_number)

\* select(Invoice).where(id == ..., tenant_id == ...) ... scalar_one_or_none()
invoice_of(store, invoice_id, tenant_id) ==
    IF \E i \in 1..Len(store.invoices) : store.invoices[i].id = invoice_id /\ store.invoices[i].tenant_id = tenant_id
    THEN Some(store.invoices[CHOOSE i \in 1..Len(store.invoices) : store.invoices[i].id = invoice_id /\ store.invoices[i].tenant_id = tenant_id])
    ELSE None

\* db.add(invoice); await db.commit(): the INSERT under the constraints of
\* the invoices table
insert_invoice(f, store) ==
    IF \/ ~(InvoiceRequired \subseteq InvoiceKwargs)
       \/ \E i \in 1..Len(store.invoices) : store.invoices[i].invoice_number = f.invoice_number
    THEN [frame |-> raise(f, "IntegrityError"), store |-> store]
    ELSE LET row == InvoiceRow(Len(store.invoices) + 1, f.tenant_id, f.invoice_number, f.financial_year, "draft")
         IN  [frame |-> [f EXCEPT !.status = "returned", !.invoice = Some(row)],
              store |-> [store EXCEPT !.invoices = Append(store.invoices, row)]]

\* await db.commit() of a loaded invoice: the UPDATE of its row
update_invoice(f, store) ==
    [frame |-> [f EXCEPT !.status = "returned"],
     store |-> [store EXCEPT !.invoices = [i \in 1..Len(store.invoices) |-> IF store.invoices[i].id = Val(f.invoice).id THEN Val(f.invoice) ELSE store.invoices[i]]]]

\* one step of create_invoice: from one await to the next
create_invoice(f, store) ==
    CASE f.step = "start" ->
           LET company == company_of(store, f.tenant_id)
           IN  IF IsNone(company)
               THEN [frame |-> http_exception(f, 400), store |-> store]
               ELSE [frame |-> [f EXCEPT !.company = company, !.step = "gst"], store |-> store]
      [] f.step = "gst" ->
           IF \/ "gst_number" \notin CompanyProfileColumns
              \/ ~({"buyer_gst", "discount_amount", "subtotal", "gst_rate", "invoice_date"} \subseteq InvoiceCreateFields)
           THEN [frame |-> raise(f, "AttributeError"), store |-> store]
           ELSE LET financial_year == get_financial_year(IF IsNone(f.invoice_date) THEN Some(now) ELSE f.invoice_date)
                    last_number == last_number_of(store, f.tenant_id, financial_year)
                IN  [frame |-> [f EXCEPT !.financial_year = financial_year,
                                         !.last_sequence = IF truthy(last_number) THEN parse_sequence(last_number).value ELSE 0,
                                         !.step = "number"],
                     store |-> store]
      [] f.step = "number" ->
           IF "invoice_prefix" \notin CompanyProfileColumns
           THEN [frame |-> raise(f, "AttributeError"), store |-> store]
           ELSE LET prefix == IF Len(Val(f.company).invoice_prefix) > 0 THEN Val(f.company).invoice_prefix ELSE INV
                    invoice_number == generate_invoice_number(prefix, f.last_sequence + 1, Some(f.financial_year))
                IN  IF ~(InvoiceKwargs \subseteq InvoiceColumns)
                    THEN [frame |-> raise(f, "TypeError"), store |-> store]
                    ELSE [frame |-> [f EXCEPT !.invoice_number = invoice_number, !.step = "commit"], store |-> store]
      [] OTHER -> insert_invoice(f, store)

\* invoice.status = "sent"; invoice.finalized_at = datetime.utcnow()
finalized_renumbered(invoice) == [invoice EXCEPT !.status = "sent", !.invoice_number = generate_invoice_number(INV, parse_sequence(Some(invoice.invoice_number)).value + 1, Some(invoice.financial_year))]

finalized(invoice) == [invoice EXCEPT !.status = "sent"]

\* invoice.status = "paid"; invoice.paid_at = datetime.utcnow()
paid(invoice) == [invoice EXCEPT !.status = "paid"]

\* one step of finalize_invoice
finalize_invoice(f, store) ==
    CASE f.step = "start" ->
           LET invoice == invoice_of(store, f.invoice_id, f.tenant_id)
           IN  IF IsNone(invoice) THEN [frame |-> http_exception(f, 404), store |-> store]
               ELSE IF Val(invoice).status # "draft"
               THEN [frame |-> http_exception([f EXCEPT !.invoice = invoice], 400), store |-> store]
               ELSE LET sent == [f EXCEPT !.invoice = Some(finalized(Val(invoice)))]
                    IN  IF ~(InvoiceDictReads \subseteq InvoiceColumns \cup {"finalized_at"})
                        THEN [frame |-> raise(sent, "AttributeError"), store |-> store]
                        ELSE [frame |-> [sent EXCEPT !.step = "commit"], store |-> store]
      [] OTHER -> update_invoice(f, store)

\* one step of mark_invoice_paid
mark_invoice_paid(f, store) ==
    CASE f.step = "start" ->
           LET invoice == invoice_of(store, f.invoice_id, f.tenant_id)
           IN  IF IsNone(invoice) THEN [frame |-> http_exception(f, 404), store |-> store]
               ELSE IF Val(invoice).status = "paid"
               THEN [frame |-> http_exception([f EXCEPT !.invoice = invoice], 400), store |-> store]
               ELSE LET marked == [f EXCEPT !.invoice = Some(paid(Val(invoice)))]
                    IN  IF ~({"total_amount"} \subseteq InvoiceColumns /\ PaymentTransactionKwargs \subseteq PaymentTransactionColumns)
                        THEN [frame |-> raise(marked, "TypeError"), store |-> store]
                        ELSE [frame |-> [marked EXCEPT !.step = "commit"], store |-> store]
      [] OTHER -> update_invoice(f, store)

\* download_invoice_pdf: no await after the invoice is loaded
download_invoice_pdf(f, store) ==
    LET invoice == invoice_of(store, f.invoice_id, f.tenant_id)
    IN  IF IsNone(invoice) THEN [frame |-> http_exception(f, 404), store |-> store]
        ELSE IF ~(InvoiceDictReads \subseteq InvoiceColumns)
        THEN [frame |-> raise([f EXCEPT !.invoice = invoice], "AttributeError"), store |-> store]
        ELSE [frame |-> [f EXCEPT !.invoice = invoice, !.status = "returned"], store |-> store]

FY_2026_27 == <<"2", "0", "2", "6", "-", "2", "7">>

\* the invoices table before the requests: empty, one draft, three invoices
\* of one tenant and year, and one invoice each of two tenants
InvoiceTables ==
    {<<>>,
     <<InvoiceRow(1, 1, generate_invoice_number(INV, 1, Some(FY_2026_27)), FY_2026_27, "draft")>>,
     <<InvoiceRow(1, 1, generate_invoice_number(INV, 1, Some(FY_2026_27)), FY_2026_27, "draft"),
       InvoiceRow(2, 1, generate_invoice_number(INV, 2, Some(FY_2026_27)), FY_2026_27, "sent"),
       InvoiceRow(3, 1, generate_invoice_number(INV, 3, Some(FY_2026_27)), FY_2026_27, "paid")>>,
     <<InvoiceRow(1, 1, generate_invoice_number(INV, 1, Some(FY_2024_25)), FY_2024_25, "draft"),
       InvoiceRow(2, 2, generate_invoice_number(<<"B", "-", "2">>, 1, Some(FY_2024_25)), FY_2024_25, "draft")>>}

\* the company profile of a tenant
Company(tenant_id) == [tenant_id |-> tenant_id, company_name |-> <<"C", DigitChars[tenant_id + 1]>>, gst_number |-> None]

\* every tenant has a profile, or tenant 2 has none
CompanyTables ==
    {[t \in Tenants |-> Some(Company(t))],
     [t \in Tenants |-> IF t = 1 THEN Some(Company(t)) ELSE None]}

\* the requests drawn: creations with and without a date for both tenants,
\* and the later operations on invoices present, foreign and missing
RequestShapes ==
    {NewRequest("create_invoice", 1, 0, None),
     NewRequest("create_invoice", 1, 0, Some([year |-> 2024, month |-> 4, day |-> 1])),
     NewRequest("create_invoice", 2, 0, None),
     NewRequest("finalize_invoice", 1, 1, None),
     NewRequest("finalize_invoice", 1, 2, None),
     NewRequest("finalize_invoice", 2, 1, None),
     NewRequest("mark_invoice_paid", 1, 1, None),
     NewRequest("mark_invoice_paid", 1, 3, None),
     NewRequest("download_invoice_pdf", 1, 1, None),
     NewRequest("download_invoice_pdf", 2, 2, None)}

InitInvoices ==
    /\ pc = "requests"
    /\ gst_in = NoGst
    /\ gst_out = None
    /\ rev_out = None
    /\ box_in = NoBox
    /\ rates_in = {}
    /\ box_out = None
    /\ box_exc = ""
    /\ http_status = 0
    /\ \E invoices \in InvoiceTables, companies \in CompanyTables : heap = [invoices |-> invoices, companies |-> companies]
    /\ frames \in [Requests -> RequestShapes]
    /\ args = <<>>
    /\ ret = None
    /\ now \in Clock

\* POST /api/invoices: request r takes one step of create_invoice
CreateInvoice(r) ==
    /\ frames[r].op = "create_invoice"
    /\ frames[r].status = "running"
    /\ frames' = [frames EXCEPT ![r] = create_invoice(frames[r], heap).frame]
    /\ heap' = create_invoice(frames[r], heap).store
    /\ UNCHANGED <<pc, costing_vars, text_vars>>

\* POST /api/invoices/{invoice_id}/finalize: request r takes one step of finalize_invoice
FinalizeInvoice(r) ==
    /\ frames[r].op = "finalize_invoice"
    /\ frames[r].status = "running"
    /\ frames' = [frames EXCEPT ![r] = finalize_invoice(frames[r], heap).frame]
    /\ heap' = finalize_invoice(frames[r], heap).store
    /\ UNCHANGED <<pc, costing_vars, text_vars>>

\* POST /api/invoices/{invoice_id}/mark-paid: request r takes one step of mark_invoice_paid
MarkInvoicePaid(r) ==
    /\ frames[r].op = "mark_invoice_paid"
    /\ frames[r].status = "running"
    /\ frames' = [frames EXCEPT ![r] = mark_invoice_paid(frames[r], heap).frame]
    /\ heap' = mark_invoice_paid(frames[r], heap).store
    /\ UNCHANGED <<pc, costing_vars, text_vars>>

\* GET /api/invoices/{invoice_id}/pdf: request r takes one step of download_invoice_pdf
DownloadInvoicePdf(r) ==
    /\ frames[r].op = "download_invoice_pdf"
    /\ frames[r].status = "running"
    /\ frames' = [frames EXCEPT ![r] = download_invoice_pdf(frames[r], heap).frame]
    /\ heap' = download_invoice_pdf(frames[r], heap).store
    /\ UNCHANGED <<pc, costing_vars, text_vars>>

NextInvoices ==
    \E r \in Requests :
        \/ CreateInvoice(r)
        \/ FinalizeInvoice(r)
        \/ MarkInvoicePaid(r)
        \/ DownloadInvoicePdf(r)

SpecInvoices == InitInvoices /\ [][NextInvoices]_vars

\* the financial year create_invoice numbers request f in
request_year(f) == get_financial_year(IF IsNone(f.invoice_date) THEN Some(now) ELSE f.invoice_date)

\* request r is a create_invoice request of a tenant with a company profile
\* and has ended
created(r) ==
    /\ frames[r].op = "create_invoice"
    /\ frames[r].status # "running"
    /\ ~IsNone(company_of(heap, frames[r].tenant_id))

\* request r returned its invoice and the invoice is a row of the table
persisted(r) ==
    /\ frames[r].status = "returned"
    /\ ~IsNone(frames[r].invoice)
    /\ \E i \in 1..Len(heap.invoices) : heap.invoices[i] = Val(frames[r].invoice)

\* the sequence number an invoice row carries
sequence_of(row) == parse_sequence(Some(row.invoice_number)).value

\* C23: under every interleaving of concurrent create_invoice requests of
\* one tenant and financial year, each request ends with its invoice
\* persisted and no two requests compute the same next sequence number.
C23_SerializedAllocation ==
    \A r, s \in Requests :
        (/\ created(r)
         /\ created(s)
         /\ frames[r].tenant_id = frames[s].tenant_id
         /\ request_year(frames[r]) = request_year(frames[s])) =>
            /\ persisted(r)
            /\ persisted(s)
            /\ r # s => sequence_of(Val(frames[r].invoice)) # sequence_of(Val(frames[s].invoice))

\* C24: uniqueness is per (tenant, financial year): create_invoice requests
\* of two different tenants both end with their invoice persisted, with the
\* same rendered number when both are the same sequence of the same year
\* under the same prefix; neither fails because of the other's invoices.
C24_TenantsNumberedApart ==
    \A r, s \in Requests :
        (/\ created(r)
         /\ created(s)
         /\ frames[r].tenant_id # frames[s].tenant_id) =>
            /\ persisted(r)
            /\ persisted(s)
            /\ (/\ request_year(frames[r]) = request_year(frames[s])
                /\ frames[r].last_sequence = frames[s].last_sequence) =>
                    Val(frames[r].invoice).invoice_number = Val(frames[s].invoice).invoice_number

\* the stored row with this id
row_with_id(invoices, id) == invoices[CHOOSE i \in 1..Len(invoices) : invoices[i].id = id]

\* two invoice objects carry the same number and financial year
same_identity(a, b) == a.invoice_number = b.invoice_number /\ a.financial_year = b.financial_year

later_operation(f) == f.op \in {"finalize_invoice", "mark_invoice_paid", "download_invoice_pdf"}

\* C25: no step of finalize_invoice, mark_invoice_paid or the PDF download
\* changes the invoice number or the financial year of an invoice: every
\* stored row keeps both, and the invoice object a later operation holds in
\* its session carries the number and year of its row.
C25_NumberAndYearKept ==
    [][/\ \A i \in 1..Len(heap.invoices) :
             /\ i <= Len(heap'.invoices)
             /\ heap'.invoices[i].id = heap.invoices[i].id
             /\ same_identity(heap'.invoices[i], heap.invoices[i])
       /\ \A r \in Requests :
             (later_operation(frames[r]) /\ ~IsNone(frames'[r].invoice)) =>
                 same_identity(Val(frames'[r].invoice),
                               row_with_id(heap.invoices, Val(frames'[r].invoice).id))]_vars

\* invoice 1 was set to "sent" by finalize_invoice and to "paid" by
\* mark_invoice_paid in their sessions, and its row has its number
C25_FinalizedAndMarkedPaid ==
    \E r, s \in Requests :
        /\ frames[r].op = "finalize_invoice"
        /\ frames[s].op = "mark_invoice_paid"
        /\ frames[r].status = "raised"
        /\ frames[s].status = "raised"
        /\ ~IsNone(frames[r].invoice)
        /\ ~IsNone(frames[s].invoice)
        /\ Val(frames[r].invoice).status = "sent"
        /\ Val(frames[s].invoice).status = "paid"
        /\ Val(frames[r].invoice).id = 1
        /\ Val(frames[s].invoice).id = 1
        /\ heap.invoices[1].invoice_number = generate_invoice_number(INV, 1, Some(FY_2026_27))
        /\ Val(frames[r].invoice).invoice_number = heap.invoices[1].invoice_number

\* C29: a create_invoice request that ran while no other request had
\* started ends with its invoice persisted as the newest of its tenant and
\* financial year, with sequence 1 when the year had no invoice and the
\* previous invoice's sequence plus 1 otherwise.
C29_SequencesInCreationOrder ==
    \A r \in Requests :
        (/\ created(r)
         /\ \A s \in Requests \ {r} : frames[s].step = "start" /\ frames[s].status = "running") =>
            LET rows == rows_of(heap.invoices, frames[r].tenant_id, request_year(frames[r]))
                n == Len(rows)
            IN  /\ persisted(r)
                /\ n >= 1
                /\ rows[n] = Val(frames[r].invoice)
                /\ sequence_of(rows[n]) = IF n = 1 THEN 1 ELSE sequence_of(rows[n - 1]) + 1

====
